---------------------------- MODULE Spec2Model ----------------------------
(* A model of the resumable segmented-transcription workflow of          *)
(* src/transcribe.py (class SmartTranscriber).                            *)
(*                                                                        *)
(* Conventions.                                                           *)
(*   - A text is a sequence of one-character strings.                     *)
(*   - A time is an integer number of quarter seconds ("ticks"): every    *)
(*     such value is an exact binary float, so sums and the .1f           *)
(*     formatting of the code are modelled exactly.                       *)
(*   - A value formatted with {:.1f} is the integer number of tenths it   *)
(*     prints (12.5 is 125).                                              *)
(*   - An optional value (Python None) is <<>> for None and <<v>> for v.  *)
EXTENDS Integers, Sequences, FiniteSets, TLC

VARIABLES
    \* ---- transcribe_audio_segments_realtime (the segment loop) ----
    pc,               \* "loop" while the for loop runs, "done" once it returned
    segment_duration, \* optimized_params['segment_duration'], in ticks
    total_duration,   \* file_info['duration_min'] * 60, in ticks
    num_segments,     \* the loop's range bound
    i,                \* the next loop index
    total_segments,   \* self.total_segments
    current_segment,  \* self.current_segment
    attempts,         \* the [start_time, end_time] of every iteration so far
    checkpoint,       \* the lines of output_file
    header_len,       \* number of lines output_file held when the loop began
    all_results,      \* the loop's all_results list
    combined_result,  \* the value the loop returns (<<>> before it returns)
    last,             \* what the latest iteration did (outcome, adapter result)
    \* ---- _filter_repetitive_content ----
    f_text, f_out,
    \* ---- combine_results ----
    cr_results, cr_out,
    \* ---- resume_transcription ----
    rs_content, rs_total, rs_last, rs_out,
    \* ---- check_existing_transcription ----
    ce_dir, ce_orig, ce_processed, ce_out,
    \* ---- load_model / transcribe_with_fallback ----
    model_name,       \* self.model_name
    model_type,       \* self.model_type
    faster_whisper_available,  \* FASTER_WHISPER_AVAILABLE
    tf_primary,       \* what the loaded model does with the audio
    tf_large_v2,      \* what the faster-whisper "large-v2" backup does
    tf_whisper_base,  \* what the "openai/whisper-base" backup does
    tf_calls,         \* the backends transcribe_with_fallback has invoked
    tf_out,           \* what transcribe_with_fallback returned or raised
    \* ---- run (the per-file loop) ----
    audio_files,      \* find_audio_files(): [path, info], info the file_info
                      \* of the processed audio
    file_index,       \* position of the for loop in audio_files
    output_dir,       \* the files of self.output_dir
    output_file,      \* the checkpoint transcribe_audio appends to (<<>>: none)
    existing_result,  \* check_existing_transcription(audio_file) (<<>>: None)
    now,              \* datetime.now(), in whole seconds
    processed,        \* how the loop left each file it has been through
    \* ---- preprocess_audio and the files of transcribe_audio ----
    pp_pc,            \* the position of transcribe_audio
    audio_path,       \* the audio file transcribe_audio was called with
    on_disk,          \* the paths that exist on the disk
    processed_audio,  \* the local processed_audio (<<>> before it is set)
    touched,          \* the paths removed or written over so far
    caught,           \* the failures an except block or a test caught
    logged,           \* those of them a print reported
    pp_last,          \* the latest call of preprocess_audio
    \* ---- progress_monitor ----
    is_processing,    \* self.is_processing
    progress_thread,  \* self.progress_thread (<<>>: None), a thread number
    reporters,        \* the progress_monitor threads started so far
    attrs             \* the progress counters set on self so far

loopVars == <<pc, segment_duration, total_duration, num_segments, i,
              total_segments, current_segment, attempts, checkpoint,
              header_len, all_results, combined_result, last>>
filterVars == <<f_text, f_out>>
combineVars == <<cr_results, cr_out>>
resumeVars == <<rs_content, rs_total, rs_last, rs_out>>
existingVars == <<ce_dir, ce_orig, ce_processed, ce_out>>
fallbackVars == <<model_name, model_type, faster_whisper_available, tf_primary,
                  tf_large_v2, tf_whisper_base, tf_calls, tf_out>>
runVars == <<audio_files, file_index, output_dir, output_file, existing_result,
             now, processed>>
prepVars == <<pp_pc, audio_path, on_disk, processed_audio, touched, caught, logged,
              pp_last>>
monVars == <<is_processing, progress_thread, reporters, attrs>>
vars == <<loopVars, filterVars, combineVars, resumeVars, existingVars, fallbackVars,
          runVars, prepVars, monVars>>

-----------------------------------------------------------------------------
(* Python built-ins used by the code.                                     *)

Min(a, b) == IF a <= b THEN a ELSE b

Whitespace == {" ", "\n"}

RECURSIVE LStrip(_)
LStrip(s) == IF s /= <<>> /\ Head(s) \in Whitespace THEN LStrip(Tail(s)) ELSE s

RECURSIVE RStrip(_)
RStrip(s) ==
    IF s /= <<>> /\ s[Len(s)] \in Whitespace
    THEN RStrip(SubSeq(s, 1, Len(s) - 1))
    ELSE s

\* str.strip()
Strip(s) == RStrip(LStrip(s))

\* str.split(): the maximal runs of non-whitespace characters, in order
RECURSIVE SplitFrom(_, _, _)
SplitFrom(s, word, acc) ==
    IF s = <<>>
    THEN IF word = <<>> THEN acc ELSE Append(acc, word)
    ELSE IF Head(s) \in Whitespace
         THEN SplitFrom(Tail(s), <<>>, IF word = <<>> THEN acc ELSE Append(acc, word))
         ELSE SplitFrom(Tail(s), Append(word, Head(s)), acc)

Split(s) == SplitFrom(s, <<>>, <<>>)

\* round-half-to-even of n/d, the rounding of an exactly represented float
RoundHalfEven(n, d) ==
    LET q == n \div d
        r == n % d
    IN  IF 2 * r < d THEN q
        ELSE IF 2 * r > d THEN q + 1
        ELSE IF q % 2 = 0 THEN q ELSE q + 1

\* f"{t:.1f}" of a time of t ticks, as the number of tenths printed
Fmt1(t) == RoundHalfEven(10 * t, 4)

\* int(a / b) for a >= 0, b > 0
IntDiv(a, b) == a \div b

-----------------------------------------------------------------------------
(* _filter_repetitive_content                                             *)

\* the list literal of the single-word check; a character outside ASCII is
\* written as its code point ("U+597D" is one character)
FillerTokens ==
    { <<"U+597D">>, <<"A">>, <<"U+554A">>, <<"U+55EF">>, <<"U+54E6">>, <<"U+5443">>,
      <<"U+55EF", "U+55EF">>, <<"U+54C8", "U+54C8">>, <<"U+5475">> }

\* any(text[k] == text[k+1] == text[k+2] == text[k+3] for k in range(len(text) - 3))
HasRunOfFour(text) ==
    \E k \in 1..(Len(text) - 3) :
        /\ text[k] = text[k + 1]
        /\ text[k + 1] = text[k + 2]
        /\ text[k + 2] = text[k + 3]

\* the filter without the check of the first two words
FilterRepetitiveContent_NoPairCheck(text) ==
    IF text = <<>> \/ Len(Strip(text)) < 3 THEN text
    ELSE LET words == Split(Strip(text))
         IN  IF Len(words) = 1 /\ Len(words[1]) = 1 /\ words[1] \in FillerTokens
             THEN <<>>
             ELSE IF Len(text) > 5 /\ HasRunOfFour(text)
             THEN <<>>
             ELSE text

\* the filter returning the stripped text where the code returns the text
FilterRepetitiveContent_Stripped(text) ==
    IF text = <<>> \/ Len(Strip(text)) < 3 THEN text
    ELSE LET words == Split(Strip(text))
         IN  IF Len(words) = 1 /\ Len(words[1]) = 1 /\ words[1] \in FillerTokens
             THEN <<>>
             ELSE IF Len(words) >= 2 /\ words[2] = words[1]
             THEN <<>>
             ELSE IF Len(text) > 5 /\ HasRunOfFour(text)
             THEN <<>>
             ELSE Strip(text)

FilterRepetitiveContent(text) ==
    IF text = <<>> \/ Len(Strip(text)) < 3 THEN text
    ELSE LET words == Split(Strip(text))
         IN  IF Len(words) = 1 /\ Len(words[1]) = 1 /\ words[1] \in FillerTokens
             THEN <<>>
             ELSE IF Len(words) >= 2 /\ words[2] = words[1]
             THEN <<>>
             ELSE IF Len(text) > 5 /\ HasRunOfFour(text)
             THEN <<>>
             ELSE text

-----------------------------------------------------------------------------
(* Transcription results.  A result is [text, chunks]; a chunk is a       *)
(* record with a text and, unless the key is missing, a timestamp: a      *)
(* sequence of optional times.                                            *)

\* chunk.get('timestamp') and len(chunk['timestamp']) >= 2
HasTimestampPair(chunk) ==
    /\ "timestamp" \in DOMAIN chunk
    /\ chunk.timestamp /= <<>>
    /\ Len(chunk.timestamp) >= 2

\* chunk['timestamp'][0] is not None and chunk['timestamp'][1] is not None
BothPresent(ts) == ts[1] /= <<>> /\ ts[2] /= <<>>

\* a slip in the adjustment: the offset reaches the start only
AdjustChunk_StartOnly(chunk, start_time, end_time) ==
    IF HasTimestampPair(chunk)
    THEN IF BothPresent(chunk.timestamp)
         THEN [chunk EXCEPT !.timestamp =
                  << <<chunk.timestamp[1][1] + start_time>>, chunk.timestamp[2] >>]
         ELSE [chunk EXCEPT !.timestamp =
                  << <<start_time>>, <<start_time + (end_time - start_time)>> >>]
    ELSE chunk

\* the timestamp adjustment of one chunk in the segment loop
AdjustChunk(chunk, start_time, end_time) ==
    IF HasTimestampPair(chunk)
    THEN IF BothPresent(chunk.timestamp)
         THEN [chunk EXCEPT !.timestamp =
                  << <<chunk.timestamp[1][1] + start_time>>,
                     <<chunk.timestamp[2][1] + start_time>> >>]
         ELSE [chunk EXCEPT !.timestamp =
                  << <<start_time>>, <<start_time + (end_time - start_time)>> >>]
    ELSE chunk

\* the timestamp adjustment block: every chunk of the result, in place
AdjustTimestamps(result, start_time, end_time) ==
    [result EXCEPT !.chunks =
        [k \in 1..Len(result.chunks) |-> AdjustChunk(result.chunks[k], start_time, end_time)]]

-----------------------------------------------------------------------------
(* The checkpoint file: a sequence of lines.  A line is                   *)
(* [kind, start, end, text]; start and end are the printed tenths of a    *)
(* "stamp" line and the printed value of a "size" or "duration" line.     *)

Line(kind, a, b, text) == [kind |-> kind, start |-> a, end |-> b, text |-> text]

\* f"[{start_time:.1f}s - {end_time:.1f}s] {filtered_text}\n"
StampLine(start_time, end_time, text) == Line("stamp", Fmt1(start_time), Fmt1(end_time), text)

\* f"[<timestamp unknown>] {filtered_text}\n"
UnknownLine(text) == Line("unknown", 0, 0, text)

\* filtered_text + "\n"
TextLine(text) == Line("text", 0, 0, text)

\* the line one chunk contributes, as a sequence of zero or one lines
ChunkLines(chunk) ==
    IF HasTimestampPair(chunk)
    THEN LET filtered_text == FilterRepetitiveContent(chunk.text)
         IN  IF filtered_text = <<>> THEN <<>>
             ELSE IF Strip(filtered_text) = <<>> THEN <<>>
             ELSE IF BothPresent(chunk.timestamp)
                  THEN <<StampLine(chunk.timestamp[1][1], chunk.timestamp[2][1], filtered_text)>>
                  ELSE <<UnknownLine(filtered_text)>>
    ELSE <<>>

\* the lines the "no chunks" branch writes
TextOnlyLines(result) ==
    IF result.text /= <<>>
    THEN LET filtered_text == FilterRepetitiveContent(result.text)
         IN  IF Strip(filtered_text) /= <<>> THEN <<TextLine(filtered_text)>> ELSE <<>>
    ELSE <<>>

RECURSIVE ConcatChunkLines(_, _)
ConcatChunkLines(chunks, k) ==
    IF k > Len(chunks) THEN <<>>
    ELSE ChunkLines(chunks[k]) \o ConcatChunkLines(chunks, k + 1)

\* every line save_result_realtime writes for a result when no write fails
ResultLines(result) ==
    IF result.chunks /= <<>>
    THEN ConcatChunkLines(result.chunks, 1)
    ELSE TextOnlyLines(result)

\* save_result_realtime(result, output_file) on a file holding `content`.
\* `writes` is the number of f.write calls the file system accepts before
\* it starts failing (-1: open() itself fails).  A failing write raises in
\* the per-chunk try, the handler's own write raises too, and the
\* exception leaves through "raise e"; the lines written before it stay.
SaveResultRealtime(result, content, writes) ==
    LET lines == ResultLines(result)
    IN  IF writes < 0
        THEN [content |-> content, raised |-> TRUE]
        ELSE IF Len(lines) <= writes
        THEN [content |-> content \o lines, raised |-> FALSE]
        ELSE [content |-> content \o SubSeq(lines, 1, writes), raised |-> TRUE]

-----------------------------------------------------------------------------
(* combine_results                                                        *)

RECURSIVE CombineFrom(_, _, _, _)
CombineFrom(results, k, combined_text, combined_chunks) ==
    IF k > Len(results)
    THEN [text |-> Strip(combined_text), chunks |-> combined_chunks]
    ELSE CombineFrom(results, k + 1,
            IF results[k].text /= <<>>
            THEN combined_text \o results[k].text \o <<" ">>
            ELSE combined_text,
            IF results[k].chunks /= <<>>
            THEN combined_chunks \o results[k].chunks
            ELSE combined_chunks)

\* a variant that trims every text before joining
CombineResults_StripEach(results) ==
    CombineFrom([k \in 1..Len(results) |-> [results[k] EXCEPT !.text = Strip(@)]],
                1, <<>>, <<>>)

CombineResults(results) == CombineFrom(results, 1, <<>>, <<>>)

-----------------------------------------------------------------------------
(* create_segmented_transcription: the header block of a new checkpoint.  *)
(* file_info is [size_mb, duration]: the size in quarter MB and the       *)
(* duration in ticks (duration_min is duration / 240).                    *)

\* f"{file_info['duration_min']:.1f}" as the number of tenths printed (the
\* durations used are off the decimal ties, where the float's error decides)
FmtMin(duration) == RoundHalfEven(10 * duration, 240)

Meta(kind) == Line(kind, 0, 0, <<>>)

NewCheckpoint(file_info) ==
    << Meta("title"), Meta("rule"),
       Meta("file"), Meta("model"), Meta("method"), Meta("hardware"),
       Meta("acceleration"), Meta("memory"),
       Line("size", Fmt1(file_info.size_mb), 0, <<>>),
       Line("duration", FmtMin(file_info.duration), 0, <<>>),
       Meta("segment_size"), Meta("batch_size"), Meta("dtype"), Meta("time"),
       Meta("rule"), Meta("blank"), Meta("label"), Meta("rule") >>

-----------------------------------------------------------------------------
(* transcribe_audio_segments_realtime                                     *)

\* at most this many chunks in one adapter result
MaxChunks == 2

\* the values of optimized_params['segment_duration']: 60, 90, 120 seconds
SegmentDurations == {240, 360, 480}

\* durations of the processed audio: 0 s, 50 s, 60 s, 63.5 s, 90.25 s (values
\* d for which (d / 60) * 60 is d again in floating point)
TotalDurations == {0, 200, 240, 254, 361}

KeptText == <<"h", "i", "!">>
RepeatedText == <<"g", "o", " ", "g", "o">>

\* what the adapter can return for one span: both times present, the end
\* missing, no timestamp key, an empty timestamp, a text the filter rejects
ChunkPool ==
    { [text |-> KeptText, timestamp |-> << <<2>>, <<9>> >>],
      [text |-> KeptText, timestamp |-> << <<9>>, <<>> >>],
      [text |-> KeptText],
      [text |-> KeptText, timestamp |-> <<>>],
      [text |-> RepeatedText, timestamp |-> << <<0>>, <<5>> >>] }

RECURSIVE JoinTexts(_, _)
JoinTexts(chunks, k) ==
    IF k > Len(chunks) THEN <<>> ELSE chunks[k].text \o JoinTexts(chunks, k + 1)

\* the results transcribe_with_fallback can return
SegResults ==
    { [text |-> JoinTexts(cs, 1), chunks |-> cs] :
        cs \in UNION { [1..n -> ChunkPool] : n \in 1..MaxChunks } }
    \cup { [text |-> KeptText, chunks |-> <<>>], [text |-> <<>>, chunks |-> <<>>] }

NoResult == [text |-> <<>>, chunks |-> <<>>]

\* num_segments = int(total_duration / segment_duration) + 1
NumSegments(total, segment) == IntDiv(total, segment) + 1

\* start_time = i * segment_duration
StartTime(k, segment) == k * segment

\* end_time = min((i + 1) * segment_duration, total_duration)
EndTime(k, segment, total) == Min((k + 1) * segment, total)

\* a variant that resumes at the segment holding the last time written to
\* the checkpoint
BeginLoop_FromLastTimestamp ==
    /\ pc = "entry"
    /\ num_segments' = NumSegments(total_duration, segment_duration)
    /\ total_segments' = NumSegments(total_duration, segment_duration)
    /\ current_segment' = 0
    /\ all_results' = <<>>
    /\ i' = IF checkpoint /= <<>> /\ checkpoint[Len(checkpoint)].kind = "stamp"
            THEN Min(NumSegments(total_duration, segment_duration),
                     (4 * checkpoint[Len(checkpoint)].end) \div (10 * segment_duration))
            ELSE 0
    /\ pc' = "loop"
    /\ UNCHANGED <<segment_duration, total_duration, attempts, checkpoint,
                   header_len, combined_result, last>>
    /\ UNCHANGED <<prepVars, monVars, filterVars, combineVars, resumeVars, existingVars, fallbackVars, runVars>>

BeginLoop ==
    /\ pc = "entry"
    /\ num_segments' = NumSegments(total_duration, segment_duration)
    /\ total_segments' = NumSegments(total_duration, segment_duration)
    /\ current_segment' = 0
    /\ all_results' = <<>>
    /\ i' = 0
    /\ pc' = "loop"
    /\ UNCHANGED <<segment_duration, total_duration, attempts, checkpoint,
                   header_len, combined_result, last>>
    /\ UNCHANGED <<prepVars, monVars, filterVars, combineVars, resumeVars, existingVars, fallbackVars, runVars>>

\* the part every iteration runs before its try block
Iterate(outcome, returned) ==
    /\ pc = "loop"
    /\ i < num_segments
    /\ current_segment' = i + 1
    /\ attempts' = Append(attempts, <<StartTime(i, segment_duration),
                                      EndTime(i, segment_duration, total_duration)>>)
    /\ last' = [outcome |-> outcome, index |-> i, returned |-> returned,
                before |-> Len(checkpoint)]
    /\ i' = i + 1
    /\ UNCHANGED <<pc, segment_duration, total_duration, num_segments,
                   total_segments, header_len, combined_result>>
    /\ UNCHANGED <<prepVars, monVars, filterVars, combineVars, resumeVars, existingVars, fallbackVars, runVars>>

\* a variant in which a failed extraction leaves the loop ("break")
SegmentExtractFails_Break ==
    /\ pc = "loop"
    /\ i < num_segments
    /\ current_segment' = i + 1
    /\ attempts' = Append(attempts, <<StartTime(i, segment_duration),
                                      EndTime(i, segment_duration, total_duration)>>)
    /\ last' = [outcome |-> "extract_failed", index |-> i, returned |-> NoResult,
                before |-> Len(checkpoint)]
    /\ i' = num_segments
    /\ UNCHANGED <<pc, segment_duration, total_duration, num_segments,
                   total_segments, header_len, combined_result, checkpoint, all_results>>
    /\ UNCHANGED <<prepVars, monVars, filterVars, combineVars, resumeVars, existingVars, fallbackVars, runVars>>

\* ffmpeg exits nonzero: "continue"
SegmentExtractFails ==
    /\ Iterate("extract_failed", NoResult)
    /\ UNCHANGED <<checkpoint, all_results>>

\* transcribe_with_fallback raises: the except block, "continue"
SegmentTranscribeRaises ==
    /\ Iterate("transcribe_raised", NoResult)
    /\ UNCHANGED <<checkpoint, all_results>>

\* extraction, transcription, adjustment and save all succeed, the adapter
\* returning one of `results`
SegmentSavedFrom(results) ==
    /\ pc = "loop"
    /\ i < num_segments
    /\ \E result \in results :
        LET adjusted == AdjustTimestamps(result, StartTime(i, segment_duration),
                                         EndTime(i, segment_duration, total_duration))
            saved == SaveResultRealtime(adjusted, checkpoint, MaxChunks)
        IN  /\ ~saved.raised
            /\ Iterate("saved", result)
            /\ checkpoint' = saved.content
            /\ all_results' = Append(all_results, adjusted)

\* save_result_realtime raises: the except block, "continue"
SegmentSaveRaisesFrom(results) ==
    /\ pc = "loop"
    /\ i < num_segments
    /\ \E result \in results, writes \in -1..(MaxChunks - 1) :
        LET adjusted == AdjustTimestamps(result, StartTime(i, segment_duration),
                                         EndTime(i, segment_duration, total_duration))
            saved == SaveResultRealtime(adjusted, checkpoint, writes)
        IN  /\ saved.raised
            /\ Iterate("save_raised", result)
            /\ checkpoint' = saved.content
            /\ UNCHANGED all_results

\* a variant that keeps the result in memory and leaves the file for later
SegmentSaved_Deferred ==
    /\ pc = "loop"
    /\ i < num_segments
    /\ \E result \in SegResults :
        LET adjusted == AdjustTimestamps(result, StartTime(i, segment_duration),
                                         EndTime(i, segment_duration, total_duration))
        IN  /\ Iterate("saved", result)
            /\ checkpoint' = checkpoint
            /\ all_results' = Append(all_results, adjusted)

SegmentSaved == SegmentSavedFrom(SegResults)

SegmentSaveRaises == SegmentSaveRaisesFrom(SegResults)

\* the loop is exhausted: combine_results(all_results) is returned
LoopReturn ==
    /\ pc = "loop"
    /\ i = num_segments
    /\ combined_result' = CombineResults(all_results)
    /\ pc' = "done"
    /\ UNCHANGED <<segment_duration, total_duration, num_segments, i,
                   total_segments, current_segment, attempts, checkpoint,
                   header_len, all_results, last>>
    /\ UNCHANGED <<prepVars, monVars, filterVars, combineVars, resumeVars, existingVars, fallbackVars, runVars>>

\* the variables of the operations a specification does not run
IdleFilter == f_text = <<>> /\ f_out = <<>>
IdleCombine == cr_results = <<>> /\ cr_out = NoResult
IdleResume == rs_content = <<>> /\ rs_total = 0 /\ rs_last = <<>> /\ rs_out = FALSE
IdleExisting == ce_dir = <<>> /\ ce_orig = <<>> /\ ce_processed = <<>> /\ ce_out = <<>>
IdleFallback ==
    /\ model_name = "" /\ model_type = "" /\ faster_whisper_available = FALSE
    /\ tf_primary = <<>> /\ tf_large_v2 = <<>> /\ tf_whisper_base = <<>>
    /\ tf_calls = <<>> /\ tf_out = <<>>
IdleRun ==
    /\ audio_files = <<>> /\ file_index = 0 /\ output_dir = <<>>
    /\ output_file = <<>> /\ existing_result = <<>> /\ now = 0 /\ processed = <<>>
IdlePrep ==
    /\ pp_pc = "" /\ audio_path = <<>> /\ on_disk = {} /\ processed_audio = <<>>
    /\ touched = {} /\ caught = {} /\ logged = {} /\ pp_last = <<>>
IdleMon ==
    /\ is_processing = FALSE /\ progress_thread = <<>> /\ reporters = <<>>
    /\ attrs = {}
IdleLoop ==
    /\ segment_duration = 0 /\ total_duration = 0 /\ num_segments = 0
    /\ i = 0 /\ total_segments = 0 /\ current_segment = 0
    /\ attempts = <<>> /\ checkpoint = <<>> /\ header_len = 0
    /\ all_results = <<>> /\ combined_result = NoResult
    /\ last = [outcome |-> "none", index |-> 0, returned |-> NoResult, before |-> 0]

\* a fresh checkpoint for the processed audio, then the loop's entry
Init ==
    /\ pc = "entry"
    /\ segment_duration \in SegmentDurations
    /\ total_duration \in TotalDurations
    /\ num_segments = 0 /\ i = 0
    /\ total_segments = 0 /\ current_segment = 0
    /\ attempts = <<>>
    /\ checkpoint = NewCheckpoint([size_mb |-> 5, duration |-> total_duration])
    /\ header_len = Len(checkpoint)
    /\ all_results = <<>>
    /\ combined_result = NoResult
    /\ last = [outcome |-> "none", index |-> 0, returned |-> NoResult, before |-> 0]
    /\ IdleFilter /\ IdleCombine /\ IdleResume /\ IdleExisting /\ IdleFallback /\ IdleRun /\ IdlePrep
    /\ IdleMon

Next ==
    \/ BeginLoop
    \/ SegmentExtractFails
    \/ SegmentTranscribeRaises
    \/ SegmentSaved
    \/ SegmentSaveRaises
    \/ LoopReturn

Spec == Init /\ [][Next]_vars

-----------------------------------------------------------------------------
(* Properties of the segment loop.                                        *)

CeilDiv(a, b) == (a + b - 1) \div b

FailedOutcomes == {"extract_failed", "transcribe_raised", "save_raised"}

\* the slice of the latest iteration
LastStart == StartTime(last.index, segment_duration)
LastEnd == EndTime(last.index, segment_duration, total_duration)

\* the lines the latest iteration added to the checkpoint
LastAppended == SubSeq(checkpoint, last.before + 1, Len(checkpoint))

\* the filter keeps the text of the chunk
TextRetained(chunk) == Strip(FilterRepetitiveContent(chunk.text)) /= <<>>

\* the chunk came back with a start and an end
TimestampPresent(chunk) ==
    /\ "timestamp" \in DOMAIN chunk
    /\ Len(chunk.timestamp) >= 2
    /\ chunk.timestamp[1] /= <<>>
    /\ chunk.timestamp[2] /= <<>>

\* among the first k chunks, those with a timestamp pair and a retained text
RECURSIVE Rank(_, _)
Rank(chunks, k) ==
    IF k = 0 THEN 0
    ELSE Rank(chunks, k - 1)
         + (IF HasTimestampPair(chunks[k]) /\ TextRetained(chunks[k]) THEN 1 ELSE 0)

\* the chunks of the results in list order
RECURSIVE AllChunks(_)
AllChunks(results) ==
    IF results = <<>> THEN <<>> ELSE Head(results).chunks \o AllChunks(Tail(results))

\* C1: when the loop has returned, the number of segment attempts is
\* ceil(total_duration / segment_duration)
C1_AttemptsIsCeil ==
    pc = "done" => Len(attempts) = CeilDiv(total_duration, segment_duration)

\* what the code does instead: floor(total / segment) + 1 attempts
C1_AttemptsIsFloorPlusOne ==
    pc = "done" => Len(attempts) = (total_duration \div segment_duration) + 1

\* C2: when the loop has returned, the attempted ranges partition
\* [0, total_duration): the first starts at 0, each starts where the previous
\* one ends, the last ends at total_duration, and every range is non-empty
C2_RangesPartition ==
    pc = "done" =>
        /\ \A k \in 1..Len(attempts) : attempts[k][1] < attempts[k][2]
        /\ \A k \in 2..Len(attempts) : attempts[k][1] = attempts[k - 1][2]
        /\ (attempts /= <<>> => attempts[1][1] = 0)
        /\ (attempts /= <<>> => attempts[Len(attempts)][2] = total_duration)
        /\ (attempts = <<>> => total_duration = 0)

\* C3: after an iteration that saved its result, every chunk the adapter
\* returned with local times [a, b] is kept in all_results with
\* [a + S, b + S], S the start of its slice, and, when its text is retained,
\* its checkpoint line prints a + S and b + S; the combined result holds
\* the kept chunks of all saved results, in order
C3_TimestampGlobalization ==
    /\ pc = "done" => combined_result.chunks = AllChunks(all_results)
    /\ last.outcome = "saved" =>
        LET chunks == last.returned.chunks
            kept == all_results[Len(all_results)].chunks
        IN  \A k \in 1..Len(chunks) :
                TimestampPresent(chunks[k]) =>
                    /\ kept[k].timestamp =
                          << <<chunks[k].timestamp[1][1] + LastStart>>,
                             <<chunks[k].timestamp[2][1] + LastStart>> >>
                    /\ TextRetained(chunks[k]) =>
                          /\ Rank(chunks, k) <= Len(LastAppended)
                          /\ LastAppended[Rank(chunks, k)] =
                                Line("stamp",
                                     Fmt1(chunks[k].timestamp[1][1] + LastStart),
                                     Fmt1(chunks[k].timestamp[2][1] + LastStart),
                                     chunks[k].text)

\* a later slice (S > 0) whose result holds a retained chunk with both times
C3_Witness ==
    /\ last.outcome = "saved"
    /\ last.index > 0
    /\ \E k \in 1..Len(last.returned.chunks) :
          /\ TimestampPresent(last.returned.chunks[k])
          /\ TextRetained(last.returned.chunks[k])
          /\ LastAppended[Rank(last.returned.chunks, k)].start = Fmt1(2 + LastStart)

\* C4: after an iteration that saved its result, every chunk whose timestamp
\* is missing (no key, empty, or a None start or end) and whose text is
\* retained has a checkpoint line carrying the bounds of the slice
C4_MissingTimestampStored ==
    last.outcome = "saved" =>
        \A k \in 1..Len(last.returned.chunks) :
            LET chunk == last.returned.chunks[k]
            IN  (~TimestampPresent(chunk) /\ TextRetained(chunk)) =>
                    \E n \in 1..Len(LastAppended) :
                        LastAppended[n] =
                            Line("stamp", Fmt1(LastStart), Fmt1(LastEnd), chunk.text)

\* what the code does for a timestamp pair with a None in it
C4_NonePartStored ==
    last.outcome = "saved" =>
        \A k \in 1..Len(last.returned.chunks) :
            LET chunk == last.returned.chunks[k]
            IN  (HasTimestampPair(chunk) /\ ~TimestampPresent(chunk) /\ TextRetained(chunk)) =>
                    LastAppended[Rank(last.returned.chunks, k)] =
                        Line("stamp", Fmt1(LastStart), Fmt1(LastEnd), chunk.text)

\* C8 as stated: a failed iteration adds nothing to the checkpoint, and when
\* the loop has returned every index was attempted, in order
C8_FailedSegmentAddsNothing ==
    /\ last.outcome \in FailedOutcomes => Len(checkpoint) = last.before
    /\ pc = "done" =>
          /\ Len(attempts) = num_segments
          /\ \A k \in 1..Len(attempts) : attempts[k][1] = StartTime(k - 1, segment_duration)

\* C8 amended: a failed extraction or transcription adds nothing; a save
\* that raises adds only lines of its own result written before the
\* exception (fewer than the result has); all_results holds the saved
\* results only; every index is attempted in order and the loop returns
C8_FailureNeverAbortsLoop ==
    /\ last.outcome \in {"extract_failed", "transcribe_raised"} =>
          Len(checkpoint) = last.before
    /\ last.outcome = "save_raised" =>
          LET lines == ResultLines(AdjustTimestamps(last.returned, LastStart, LastEnd))
          IN  /\ Len(LastAppended) <= Len(lines)
              /\ LastAppended = SubSeq(lines, 1, Len(LastAppended))
              /\ (lines /= <<>> => Len(LastAppended) < Len(lines))
    /\ Len(all_results) <= i
    /\ (last.outcome \in FailedOutcomes /\ last.index = 0 /\ i = 1) => all_results = <<>>
    /\ Len(attempts) = i
    /\ \A k \in 1..Len(attempts) : attempts[k][1] = StartTime(k - 1, segment_duration)
    /\ pc = "done" => i = num_segments
    /\ (pc = "loop" /\ i = num_segments) => ENABLED LoopReturn

\* the first segment failed and the second one was still attempted and saved
C8_Witness ==
    /\ pc = "done"
    /\ Len(attempts) = 2
    /\ Len(all_results) = 1
    /\ last.outcome = "saved"
    /\ last.index = 1
    /\ Len(checkpoint) > header_len

\* the lines of results[k], results[k + 1], ... occur in body after position
\* pos, each result's lines as one block, the blocks in the order of results
RECURSIVE HoldsInOrder(_, _, _, _)
HoldsInOrder(body, pos, results, k) ==
    IF k > Len(results) THEN TRUE
    ELSE LET lines == ResultLines(results[k])
         IN  \E p \in pos..(Len(body) - Len(lines)) :
                 /\ SubSeq(body, p + 1, p + Len(lines)) = lines
                 /\ HoldsInOrder(body, p + Len(lines), results, k + 1)

\* C18: at every point of the loop the checkpoint file holds, after the lines
\* it began with, every retained line of every segment that finished before,
\* in segment order: a segment's lines are in the file before the next
\* segment's extraction begins
C18_FinishedSegmentsPersisted ==
    /\ Len(checkpoint) >= header_len
    /\ HoldsInOrder(checkpoint, header_len, all_results, 1)

\* segment 0 retained a line, which is in the file while segment 1 is still
\* to be extracted
C18_Witness ==
    /\ pc = "loop"
    /\ i = 1
    /\ i < num_segments
    /\ last.outcome = "saved"
    /\ Len(all_results) = 1
    /\ ResultLines(all_results[1]) /= <<>>
    /\ SubSeq(checkpoint, header_len + 1, Len(checkpoint)) = ResultLines(all_results[1])

-----------------------------------------------------------------------------
(* _filter_repetitive_content applied to one text.                        *)

\* longest text given to the filter
MaxTextLen == 6

\* a filler character of the list, two letters, a blank
FilterAlphabet == {"U+55EF", "a", "b", " "}

FilterInputs == UNION { [1..n -> FilterAlphabet] : n \in 0..MaxTextLen }

InitFilter ==
    /\ pc = "filter_entry"
    /\ f_text \in FilterInputs
    /\ f_out = <<>>
    /\ IdleLoop /\ IdleCombine /\ IdleResume /\ IdleExisting /\ IdleFallback /\ IdleRun /\ IdlePrep
    /\ IdleMon

ApplyFilter ==
    /\ pc = "filter_entry"
    /\ f_out' = FilterRepetitiveContent(f_text)
    /\ pc' = "filter_done"
    /\ UNCHANGED <<f_text, segment_duration, total_duration, num_segments, i,
                   total_segments, current_segment, attempts, checkpoint,
                   header_len, all_results, combined_result, last>>
    /\ UNCHANGED <<prepVars, monVars, combineVars, resumeVars, existingVars, fallbackVars, runVars>>

NextFilter == ApplyFilter

SpecFilter == InitFilter /\ [][NextFilter]_vars

\* C10: a text that is one word, that word one of the one-character filler
\* tokens, is filtered to the empty text
C10_SingleFillerRemoved ==
    (/\ pc = "filter_done"
     /\ Len(Split(f_text)) = 1
     /\ Len(Split(f_text)[1]) = 1
     /\ Split(f_text)[1] \in FillerTokens)
        => f_out = <<>>

\* what the code does: a text whose stripped length is under 3 is returned as is
C10_ShortTextReturned ==
    (pc = "filter_done" /\ Len(Strip(f_text)) < 3) => f_out = f_text

\* C11: a text of two or more whitespace-separated words whose first two
\* words are identical is filtered to the empty text
C11_RepeatedPairRemoved ==
    (/\ pc = "filter_done"
     /\ Len(Split(f_text)) >= 2
     /\ Split(f_text)[1] = Split(f_text)[2])
        => f_out = <<>>

\* a text that only the check of the first two words rejects has been filtered
C11_Witness ==
    /\ pc = "filter_done"
    /\ f_text = <<"a", "b", " ", "a", "b">>
    /\ f_out = <<>>

\* C12: a text longer than 5 characters that holds four identical consecutive
\* characters at any position is filtered to the empty text, and no text of 5
\* characters or fewer is rejected for such a run
C12_RunOfFourRemoved ==
    /\ (pc = "filter_done" /\ Len(f_text) > 5 /\ HasRunOfFour(f_text))
            => f_out = <<>>
    /\ (/\ pc = "filter_done"
        /\ Len(f_text) <= 5
        /\ HasRunOfFour(f_text)
        /\ ~(Len(Split(f_text)) >= 2 /\ Split(f_text)[1] = Split(f_text)[2]))
            => f_out = f_text

\* what the code does: the run of four is looked for only in a text whose
\* stripped length is 3 or more
C12_RunOfFourRemovedUnlessShort ==
    (/\ pc = "filter_done"
     /\ Len(f_text) > 5
     /\ HasRunOfFour(f_text)
     /\ Len(Strip(f_text)) >= 3)
        => f_out = <<>>

\* the three rules, as conditions on the text given to the filter
MatchesSingleFiller(text) ==
    /\ Len(Split(text)) = 1
    /\ Len(Split(text)[1]) = 1
    /\ Split(text)[1] \in FillerTokens

MatchesRepeatedPair(text) ==
    /\ Len(Split(text)) >= 2
    /\ Split(text)[1] = Split(text)[2]

MatchesRunOfFour(text) == Len(text) > 5 /\ HasRunOfFour(text)

\* C13: a text that matches none of the three rules is returned unchanged, and
\* the result of the filter is always the text given to it or the empty text
C13_UnmatchedReturnedUnchanged ==
    pc = "filter_done" =>
        /\ f_out \in {f_text, <<>>}
        /\ (/\ ~MatchesSingleFiller(f_text)
            /\ ~MatchesRepeatedPair(f_text)
            /\ ~MatchesRunOfFour(f_text))
                => f_out = f_text

\* a text with a leading blank, past the length guard and matching no rule, has
\* been returned with its blank
C13_Witness ==
    /\ pc = "filter_done"
    /\ f_text = <<" ", "a", "b", " ", "a">>
    /\ f_out = f_text

-----------------------------------------------------------------------------
(* combine_results applied to a list of results.                          *)

\* longest list of results combined
MaxResults == 2

SpanOne == [text |-> <<"A">>, timestamp |-> << <<0>>, <<4>> >>]
SpanTwo == [text |-> <<"B">>, timestamp |-> << <<4>>, <<8>> >>]

CombineTexts == { <<>>, <<"A">>, <<"A", " ">>, <<"B", " ">>, <<" ", "B">> }
CombineChunks == { <<>>, <<SpanOne>>, <<SpanTwo>>, <<SpanTwo, SpanOne>> }

CombineInputs ==
    UNION { [1..n -> [text : CombineTexts, chunks : CombineChunks]] : n \in 0..MaxResults }

InitCombine ==
    /\ pc = "combine_entry"
    /\ cr_results \in CombineInputs
    /\ cr_out = NoResult
    /\ IdleLoop /\ IdleFilter /\ IdleResume /\ IdleExisting /\ IdleFallback /\ IdleRun /\ IdlePrep
    /\ IdleMon

ApplyCombine ==
    /\ pc = "combine_entry"
    /\ cr_out' = CombineResults(cr_results)
    /\ pc' = "combine_done"
    /\ UNCHANGED <<cr_results, segment_duration, total_duration, num_segments, i,
                   total_segments, current_segment, attempts, checkpoint,
                   header_len, all_results, combined_result, last>>
    /\ UNCHANGED <<prepVars, monVars, filterVars, resumeVars, existingVars, fallbackVars, runVars>>

NextCombine == ApplyCombine

SpecCombine == InitCombine /\ [][NextCombine]_vars

ExampleResults ==
    << [text |-> <<"A", " ">>, chunks |-> <<SpanOne>>],
       [text |-> <<"B", " ">>, chunks |-> <<SpanTwo>>] >>

\* the non-empty texts of the results in list order
RECURSIVE NonEmptyTexts(_)
NonEmptyTexts(results) ==
    IF results = <<>> THEN <<>>
    ELSE (IF Head(results).text /= <<>> THEN <<Head(results).text>> ELSE <<>>)
         \o NonEmptyTexts(Tail(results))

\* the texts with one blank between neighbours
RECURSIVE JoinWithBlank(_)
JoinWithBlank(texts) ==
    IF texts = <<>> THEN <<>>
    ELSE IF Len(texts) = 1 THEN texts[1]
    ELSE texts[1] \o <<" ">> \o JoinWithBlank(Tail(texts))

\* C9 as stated: combining "A " with [s1] and "B " with [s2] gives "A B" with [s1, s2]
C9_ExampleYieldsAB ==
    (pc = "combine_done" /\ cr_results = ExampleResults)
        => cr_out = [text |-> <<"A", " ", "B">>, chunks |-> <<SpanOne, SpanTwo>>]

\* C9 amended: the combined text is the non-empty texts, each kept as it is,
\* joined by one blank and trimmed at both ends, and the combined chunks are
\* the chunk lists in order; for the example that is "A  B" with [s1, s2]
C9_JoinTrimConcat ==
    pc = "combine_done" =>
        /\ cr_out.text = Strip(JoinWithBlank(NonEmptyTexts(cr_results)))
        /\ cr_out.chunks = AllChunks(cr_results)
        /\ cr_results = ExampleResults =>
              cr_out = [text |-> <<"A", " ", " ", "B">>, chunks |-> <<SpanOne, SpanTwo>>]

C9_Witness ==
    /\ pc = "combine_done"
    /\ cr_results = ExampleResults
    /\ cr_out.chunks = <<SpanOne, SpanTwo>>

-----------------------------------------------------------------------------
(* resume_transcription: the completeness decision on an existing        *)
(* checkpoint.                                                            *)

\* the allowed shortfall of the last timestamp, in seconds
CompletionTolerance == 30

\* most body lines of a checkpoint given to resume_transcription
MaxBodyLines == 2

\* transcribed_content: the lines after the first line holding the label
\* text when there is one, else every line
RECURSIVE AfterLabel(_, _)
AfterLabel(content, k) ==
    IF k > Len(content) THEN content
    ELSE IF content[k].kind = "label" THEN SubSeq(content, k + 1, Len(content))
    ELSE AfterLabel(content, k + 1)

\* the reversed scan: the end time of the last line that starts with "[",
\* holds " - " before its "]" and ends that part with "s"; None when no
\* line does
RECURSIVE LastTimestamp(_, _)
LastTimestamp(lines, k) ==
    IF k = 0 THEN <<>>
    ELSE IF lines[k].kind = "stamp" THEN <<lines[k].end>>
    ELSE LastTimestamp(lines, k - 1)

\* last_timestamp and last_timestamp >= (total_duration - 30): the parsed
\* value is in tenths of a second, the duration in ticks
IsComplete(last_timestamp, total) ==
    /\ last_timestamp /= <<>>
    /\ last_timestamp[1] /= 0
    /\ 4 * last_timestamp[1] >= 10 * (total - 4 * CompletionTolerance)

\* printed end times of body lines: 0.0, 20.0, 99.9, 100.0 seconds
ResumeEnds == {0, 200, 999, 1000}

\* durations: 0 s, 20 s, 30 s, 50 s, 130 s
ResumeTotals == {0, 80, 120, 200, 520}

ResumeBodyLines ==
    { Line("stamp", 0, e, KeptText) : e \in ResumeEnds }
    \cup { UnknownLine(KeptText), TextLine(KeptText) }

InitResume ==
    /\ pc = "resume_entry"
    /\ rs_total \in ResumeTotals
    /\ \E body \in UNION { [1..n -> ResumeBodyLines] : n \in 0..MaxBodyLines } :
          rs_content = NewCheckpoint([size_mb |-> 5, duration |-> rs_total]) \o body
    /\ rs_last = <<>>
    /\ rs_out = FALSE
    /\ IdleLoop /\ IdleFilter /\ IdleCombine /\ IdleExisting /\ IdleFallback /\ IdleRun /\ IdlePrep
    /\ IdleMon

ResumeTranscription ==
    /\ pc = "resume_entry"
    /\ LET transcribed_content == AfterLabel(rs_content, 1)
           last_timestamp == LastTimestamp(transcribed_content, Len(transcribed_content))
       IN  /\ rs_last' = last_timestamp
           /\ rs_out' = IsComplete(last_timestamp, rs_total)
    /\ pc' = "resume_done"
    /\ UNCHANGED <<rs_content, rs_total, segment_duration, total_duration,
                   num_segments, i, total_segments, current_segment, attempts,
                   checkpoint, header_len, all_results, combined_result, last>>
    /\ UNCHANGED <<prepVars, monVars, filterVars, combineVars, existingVars, fallbackVars, runVars>>

NextResume == ResumeTranscription

SpecResume == InitResume /\ [][NextResume]_vars

\* C5: whenever a last end time was parsed (0 included), the decision is
\* "complete" exactly when that time is at least the duration minus 30 s
C5_CompleteIffWithinTolerance ==
    (pc = "resume_done" /\ rs_last /= <<>>) =>
        (rs_out <=> 4 * rs_last[1] >= 10 * (rs_total - 120))

\* what the code decides: the same, for a parsed end time other than 0.0
C5_CompleteIffNonzeroWithinTolerance ==
    (pc = "resume_done" /\ rs_last /= <<>> /\ rs_last[1] /= 0) =>
        (rs_out <=> 4 * rs_last[1] >= 10 * (rs_total - 120))

-----------------------------------------------------------------------------
(* check_existing_transcription: the search for a checkpoint to resume.   *)
(* A file of the output directory is [name, readable, content]; a name is *)
(* [parts, ext]: its text before the extension split at "-", and the      *)
(* extension.                                                             *)

\* most files in the output directory
MaxFiles == 2

\* datetime.min, below every time a file name can carry
DateTimeMin == 0

\* datetime.strptime(token, '%Y%m%d_%H%M%S'): the tokens "T1" < ... < "T4"
\* stand for four well-formed time strings, each later than datetime.min
\* (as every name made from datetime.now() is); any other token raises
Strptime(token) ==
    CASE token = "T1" -> <<1>>
      [] token = "T2" -> <<2>>
      [] token = "T3" -> <<3>>
      [] token = "T4" -> <<4>>
      [] OTHER -> <<>>

\* extract_timestamp(filename)
ExtractTimestamp(name) ==
    IF Len(name.parts) >= 3
    THEN IF Strptime(name.parts[Len(name.parts)]) /= <<>>
         THEN Strptime(name.parts[Len(name.parts)])[1]
         ELSE DateTimeMin
    ELSE DateTimeMin

\* file.startswith("result-") and file.endswith(".txt")
IsResultFile(name) ==
    /\ Len(name.parts) >= 2
    /\ name.parts[1] = "result"
    /\ name.ext = ".txt"

\* the listing filtered to result files, in listing order
RECURSIVE ResultFiles(_)
ResultFiles(dir) ==
    IF dir = <<>> THEN <<>>
    ELSE (IF IsResultFile(Head(dir).name) THEN <<Head(dir)>> ELSE <<>>)
         \o ResultFiles(Tail(dir))

\* list.sort(key=extract_timestamp, reverse=True): a stable sort, so files
\* with equal keys keep their listing order
RECURSIVE InsertNewestFirst(_, _)
InsertNewestFirst(sorted, file) ==
    IF sorted = <<>> THEN <<file>>
    ELSE IF ExtractTimestamp(Head(sorted).name) >= ExtractTimestamp(file.name)
         THEN <<Head(sorted)>> \o InsertNewestFirst(Tail(sorted), file)
         ELSE <<file>> \o sorted

RECURSIVE SortFrom(_, _, _)
SortFrom(files, k, sorted) ==
    IF k > Len(files) THEN sorted
    ELSE SortFrom(files, k + 1, InsertNewestFirst(sorted, files[k]))

\* a variant without the sort: the files in listing order
SortNewestFirst_Unsorted(files) == files

SortNewestFirst(files) == SortFrom(files, 1, <<>>)

\* a variant that looks at the size line only
FingerprintMatch_SizeOnly(content, file_info) ==
    \E k \in 1..Len(content) :
        content[k].kind = "size" /\ content[k].start = Fmt1(file_info.size_mb)

\* size_match and duration_match: the two fingerprint lines, printed from
\* the processed audio's file_info, occur in the content
FingerprintMatch(content, file_info) ==
    /\ \E k \in 1..Len(content) :
          content[k].kind = "size" /\ content[k].start = Fmt1(file_info.size_mb)
    /\ \E k \in 1..Len(content) :
          content[k].kind = "duration" /\ content[k].start = FmtMin(file_info.duration)

\* the for loop over the sorted files: the first readable matching file
RECURSIVE FirstMatch(_, _, _)
FirstMatch(files, k, file_info) ==
    IF k > Len(files) THEN <<>>
    ELSE IF files[k].readable /\ FingerprintMatch(files[k].content, file_info)
         THEN <<files[k].name>>
         ELSE FirstMatch(files, k + 1, file_info)

\* the path check_existing_transcription returns, None as <<>>
CheckExistingTranscription(dir, processed_file_info) ==
    FirstMatch(SortNewestFirst(ResultFiles(dir)), 1, processed_file_info)

\* 4.0 MB and 130 s; 4.0 MB and 130.25 s, which print alike ("4.0", "2.2");
\* 4.25 MB and 130 s ("4.2", "2.2"); 4.0 MB and 63.5 s ("4.0", "1.1")
FileInfos ==
    { [size_mb |-> 16, duration |-> 520],
      [size_mb |-> 16, duration |-> 521],
      [size_mb |-> 17, duration |-> 520],
      [size_mb |-> 16, duration |-> 254] }

FileNames ==
    { [parts |-> <<"result", "source", "T1">>, ext |-> ".txt"],
      [parts |-> <<"result", "source", "T2">>, ext |-> ".txt"],
      [parts |-> <<"result", "source", "copy">>, ext |-> ".txt"],
      [parts |-> <<"result", "T3">>, ext |-> ".txt"],
      [parts |-> <<"notes", "source", "T3">>, ext |-> ".txt"] }

DirFiles ==
    { [name |-> n, readable |-> TRUE, content |-> NewCheckpoint(info)] :
        n \in FileNames, info \in FileInfos }
    \cup { [name |-> n, readable |-> FALSE, content |-> <<>>] : n \in FileNames }

\* listings of at most MaxFiles files with different names
Listings ==
    { d \in UNION { [1..n -> DirFiles] : n \in 0..MaxFiles } :
        \A a, b \in 1..Len(d) : a /= b => d[a].name /= d[b].name }

InitExisting ==
    /\ pc = "existing_entry"
    /\ ce_dir \in Listings
    /\ ce_orig \in FileInfos
    /\ ce_processed \in FileInfos
    /\ ce_out = <<>>
    /\ IdleLoop /\ IdleFilter /\ IdleCombine /\ IdleResume /\ IdleFallback /\ IdleRun /\ IdlePrep
    /\ IdleMon

CheckExisting ==
    /\ pc = "existing_entry"
    /\ ce_out' = CheckExistingTranscription(ce_dir, ce_processed)
    /\ pc' = "existing_done"
    /\ UNCHANGED <<ce_dir, ce_orig, ce_processed, segment_duration, total_duration,
                   num_segments, i, total_segments, current_segment, attempts,
                   checkpoint, header_len, all_results, combined_result, last>>
    /\ UNCHANGED <<prepVars, monVars, filterVars, combineVars, resumeVars, fallbackVars, runVars>>

NextExisting == CheckExisting

SpecExisting == InitExisting /\ [][NextExisting]_vars

\* the result files of the listing that can be read and hold both
\* fingerprint lines of the given file_info
Candidates(file_info) ==
    { k \in 1..Len(ce_dir) :
        /\ IsResultFile(ce_dir[k].name)
        /\ ce_dir[k].readable
        /\ \E a, b \in 1..Len(ce_dir[k].content) :
              /\ ce_dir[k].content[a].kind = "size"
              /\ ce_dir[k].content[a].start = Fmt1(file_info.size_mb)
              /\ ce_dir[k].content[b].kind = "duration"
              /\ ce_dir[k].content[b].start = FmtMin(file_info.duration) }

\* C6: the file returned is a candidate whose name carries the latest
\* timestamp among the candidates; one whose name does not parse is
\* returned only when no candidate's name parses
C6_LatestMatchingSelected ==
    (pc = "existing_done" /\ ce_out /= <<>>) =>
        \E c \in Candidates(ce_processed) :
            /\ ce_dir[c].name = ce_out[1]
            /\ \A k \in Candidates(ce_processed) :
                  ExtractTimestamp(ce_dir[k].name) <= ExtractTimestamp(ce_out[1])
            /\ ExtractTimestamp(ce_out[1]) = DateTimeMin =>
                  \A k \in Candidates(ce_processed) :
                      ExtractTimestamp(ce_dir[k].name) = DateTimeMin

\* two candidates, the older one listed first, and the newer one returned
C6_Witness ==
    /\ pc = "existing_done"
    /\ Cardinality(Candidates(ce_processed)) = 2
    /\ Len(ce_dir) = 2
    /\ ExtractTimestamp(ce_dir[1].name) < ExtractTimestamp(ce_dir[2].name)
    /\ ce_out = <<ce_dir[2].name>>

\* C7: a file is returned only if it holds both fingerprint lines of the
\* processed audio, and none is returned exactly when no readable result
\* file holds both
C7_ReturnsOnlyFingerprintMatch ==
    pc = "existing_done" =>
        /\ ce_out /= <<>> =>
              \E c \in Candidates(ce_processed) : ce_dir[c].name = ce_out[1]
        /\ ce_out = <<>> <=> Candidates(ce_processed) = {}

\* a file holds the fingerprint of the original audio, not that of the
\* processed audio, and nothing is returned
C7_Witness ==
    /\ pc = "existing_done"
    /\ Candidates(ce_orig) /= {}
    /\ Fmt1(ce_orig.size_mb) /= Fmt1(ce_processed.size_mb)
    /\ ce_out = <<>>

-----------------------------------------------------------------------------
(* transcribe_with_fallback: the loaded model, then at most one backup.   *)
(* What a backend does with the audio is [raised, result]: it raises, or  *)
(* it returns a result.                                                   *)

\* the text '!!!!!!!!!' of the degeneracy test
NineBangs == <<"!", "!", "!", "!", "!", "!", "!", "!", "!">>

\* text == '!' or text == '!!!!!!!!!' or len(text) <= 2, text being stripped
IsDegenerate(text) == text = <<"!">> \/ text = NineBangs \/ Len(text) <= 2

\* the call that runs the loaded model
PrimaryCall(type) ==
    IF type = "faster-whisper" THEN "_transcribe_with_faster_whisper" ELSE "model"

Returned(calls, result) == [calls |-> calls, raised |-> FALSE, result |-> result]
Raises(calls) == [calls |-> calls, raised |-> TRUE, result |-> NoResult]

\* transcribe_with_fallback(audio_path): the backends invoked, and the result
\* returned or the exception raised
TranscribeWithFallback(name, type, available, primary, large_v2, whisper_base) ==
    IF primary.raised THEN Raises(<<PrimaryCall(type)>>)
    ELSE IF ~IsDegenerate(Strip(primary.result.text))
    THEN Returned(<<PrimaryCall(type)>>, primary.result)
    ELSE IF name /= "Breeze-ASR-25"
    THEN Returned(<<PrimaryCall(type)>>, primary.result)
    ELSE IF available /\ ~large_v2.raised
    THEN Returned(<<PrimaryCall(type), "large-v2">>, large_v2.result)
    ELSE LET calls == IF available
                      THEN <<PrimaryCall(type), "large-v2", "whisper-base">>
                      ELSE <<PrimaryCall(type), "whisper-base">>
         IN  IF whisper_base.raised THEN Raises(calls)
             ELSE Returned(calls, whisper_base.result)

\* the (model_name, model_type) pairs load_model can leave, with the value of
\* FASTER_WHISPER_AVAILABLE under which it leaves them
LoadedModels ==
    { [name |-> "Breeze-ASR-25", type |-> "transformers", available |-> TRUE],
      [name |-> "Breeze-ASR-25", type |-> "transformers", available |-> FALSE],
      [name |-> "faster-whisper", type |-> "faster-whisper", available |-> TRUE],
      [name |-> "Whisper", type |-> "transformers", available |-> TRUE],
      [name |-> "Whisper", type |-> "transformers", available |-> FALSE] }

\* full texts of the loaded model: empty, "!", a lone full stop (U+3002),
\* two letters, a letter between blanks, nine "!", three "!", a kept text
PrimaryTexts ==
    { <<>>, <<"!">>, <<"U+3002">>, <<"a", "b">>, <<" ", "a", " ">>, NineBangs,
      <<"!", "!", "!">>, KeptText }

\* full texts of a backup model
BackupTexts == { <<>>, <<"!">>, NineBangs, KeptText }

TextResult(text) == [text |-> text, chunks |-> <<>>]

BackendRaises == [raised |-> TRUE, result |-> NoResult]

BackendOutcomes(texts) ==
    { [raised |-> FALSE, result |-> TextResult(t)] : t \in texts } \cup {BackendRaises}

InitFallback ==
    /\ pc = "fallback_entry"
    /\ \E loaded \in LoadedModels :
          /\ model_name = loaded.name
          /\ model_type = loaded.type
          /\ faster_whisper_available = loaded.available
    /\ tf_primary \in BackendOutcomes(PrimaryTexts)
    /\ tf_large_v2 \in BackendOutcomes(BackupTexts)
    /\ (~faster_whisper_available => tf_large_v2 = BackendRaises)
    /\ tf_whisper_base \in BackendOutcomes(BackupTexts)
    /\ tf_calls = <<>>
    /\ tf_out = <<>>
    /\ IdleLoop /\ IdleFilter /\ IdleCombine /\ IdleResume /\ IdleExisting /\ IdleRun /\ IdlePrep
    /\ IdleMon

ApplyFallback ==
    /\ pc = "fallback_entry"
    /\ LET out == TranscribeWithFallback(model_name, model_type,
                                         faster_whisper_available, tf_primary,
                                         tf_large_v2, tf_whisper_base)
       IN  /\ tf_calls' = out.calls
           /\ tf_out' = [raised |-> out.raised, result |-> out.result]
    /\ pc' = "fallback_done"
    /\ UNCHANGED <<model_name, model_type, faster_whisper_available, tf_primary,
                   tf_large_v2, tf_whisper_base>>
    /\ UNCHANGED <<segment_duration, total_duration, num_segments, i,
                   total_segments, current_segment, attempts, checkpoint,
                   header_len, all_results, combined_result, last>>
    /\ UNCHANGED <<prepVars, monVars, filterVars, combineVars, resumeVars, existingVars, runVars>>

NextFallback == ApplyFallback

SpecFallback == InitFallback /\ [][NextFallback]_vars

\* a backup backend was invoked after the loaded model
FallbackInvoked == Len(tf_calls) > 1

\* degenerate as the policy words it: empty, a lone punctuation mark, or at
\* most 2 characters, after trimming
PunctuationMarks == {"!", "U+3002"}

PolicyDegenerate(text) ==
    \/ Strip(text) = <<>>
    \/ Len(Strip(text)) = 1 /\ Strip(text)[1] \in PunctuationMarks
    \/ Len(Strip(text)) <= 2

\* C14: a backup is invoked exactly when the trimmed text of the loaded model
\* is empty, a lone punctuation mark or at most 2 characters long; any other
\* result of the loaded model is returned as is, no backup invoked
C14_FallbackIffDegenerate ==
    (pc = "fallback_done" /\ ~tf_primary.raised) =>
        /\ FallbackInvoked <=> PolicyDegenerate(tf_primary.result.text)
        /\ ~PolicyDegenerate(tf_primary.result.text) =>
              /\ tf_calls = <<PrimaryCall(model_type)>>
              /\ tf_out = [raised |-> FALSE, result |-> tf_primary.result]

\* what the code does: a backup is invoked exactly when the loaded model is
\* Breeze-ASR-25 and its trimmed text is "!", nine "!" or at most 2 characters
\* long; in every other case the loaded model's result is returned as is
C14_FallbackIffDegenerateBreeze ==
    (pc = "fallback_done" /\ ~tf_primary.raised) =>
        LET text == Strip(tf_primary.result.text)
            degenerate == text = <<"!">> \/ text = NineBangs \/ Len(text) <= 2
        IN  /\ FallbackInvoked <=> (degenerate /\ model_name = "Breeze-ASR-25")
            /\ ~(degenerate /\ model_name = "Breeze-ASR-25") =>
                  /\ tf_calls = <<PrimaryCall(model_type)>>
                  /\ tf_out = [raised |-> FALSE, result |-> tf_primary.result]

\* the ordered backups of Breeze-ASR-25
Fallbacks ==
    IF faster_whisper_available THEN <<tf_large_v2, tf_whisper_base>>
    ELSE <<tf_whisper_base>>

\* the backup whose result the policy keeps: the first whose text is not
\* degenerate, the last when every text is
PolicyChoice ==
    IF \E k \in 1..Len(Fallbacks) : ~PolicyDegenerate(Fallbacks[k].result.text)
    THEN CHOOSE k \in 1..Len(Fallbacks) :
            /\ ~PolicyDegenerate(Fallbacks[k].result.text)
            /\ \A j \in 1..(k - 1) : PolicyDegenerate(Fallbacks[j].result.text)
    ELSE Len(Fallbacks)

\* C15: when the text of Breeze-ASR-25 is degenerate and no backup raises, the
\* backups are run in order up to the first whose text is not degenerate (all
\* of them when every text is degenerate), the result of the last one run is
\* returned, and nothing is raised
C15_FirstNonDegenerateFallback ==
    (/\ pc = "fallback_done"
     /\ model_name = "Breeze-ASR-25"
     /\ ~tf_primary.raised
     /\ PolicyDegenerate(tf_primary.result.text)
     /\ \A k \in 1..Len(Fallbacks) : ~Fallbacks[k].raised)
        => /\ ~tf_out.raised
           /\ Len(tf_calls) = 1 + PolicyChoice
           /\ tf_out.result = Fallbacks[PolicyChoice].result

\* what the code does: one backup's result is returned, degenerate or not;
\* "whisper-base" runs only when "large-v2" is missing or raises
C15_SingleFallback ==
    (/\ pc = "fallback_done"
     /\ model_name = "Breeze-ASR-25"
     /\ ~tf_primary.raised
     /\ PolicyDegenerate(tf_primary.result.text)
     /\ \A k \in 1..Len(Fallbacks) : ~Fallbacks[k].raised)
        => /\ ~tf_out.raised
           /\ Len(tf_calls) = 2
           /\ tf_out.result = Fallbacks[1].result

-----------------------------------------------------------------------------
(* run: load_model, then the loop over the discovered audio files.  Each  *)
(* file is skipped (its checkpoint is complete), or transcribed by        *)
(* transcribe_audio, whose segment loop is the loop modelled above, or    *)
(* left by an exception that the loop's except block catches.             *)

\* the clock advances at most this many seconds during a run
MaxTicks == 1

\* load_model(): the model it leaves, or the exception of the last loader;
\* breeze, fw and base tell which of the three loaders succeed
LoadModel(available, breeze, fw, base) ==
    IF breeze
    THEN [raised |-> FALSE, name |-> "Breeze-ASR-25", type |-> "transformers"]
    ELSE IF available /\ fw
    THEN [raised |-> FALSE, name |-> "faster-whisper", type |-> "faster-whisper"]
    ELSE IF base
    THEN [raised |-> FALSE, name |-> "Whisper", type |-> "transformers"]
    ELSE [raised |-> TRUE, name |-> "", type |-> ""]

\* datetime.now().strftime("%Y%m%d_%H%M%S")
TimeToken(t) ==
    CASE t = 1 -> "T1" [] t = 2 -> "T2" [] t = 3 -> "T3" [] OTHER -> "T4"

\* f"result-{filename}-{timestamp}.txt": every discovered file is source.<ext>,
\* so filename is "source"
CheckpointName(t) == [parts |-> <<"result", "source", TimeToken(t)>>, ext |-> ".txt"]

HasFile(dir, name) == \E k \in 1..Len(dir) : dir[k].name = name

ContentOf(dir, name) ==
    LET k == CHOOSE j \in 1..Len(dir) : dir[j].name = name IN dir[k].content

\* the directory after `content` replaced what the file `name` held
WithContent(dir, name, content) ==
    [k \in 1..Len(dir) |->
        IF dir[k].name = name
        THEN [name |-> name, readable |-> TRUE, content |-> content]
        ELSE dir[k]]

\* open(output_file, "w") and the header writes: a new file, or the file of
\* that name emptied and written again
OpenForWriting(dir, name, content) ==
    IF HasFile(dir, name) THEN WithContent(dir, name, content)
    ELSE Append(dir, [name |-> name, readable |-> TRUE, content |-> content])

\* the third value resume_transcription returns for the checkpoint `content`
ResumeDecision(content, total) ==
    LET transcribed_content == AfterLabel(content, 1)
    IN  IsComplete(LastTimestamp(transcribed_content, Len(transcribed_content)), total)

\* the file the loop is at has a matching checkpoint that is complete
CurrentIsComplete ==
    LET info == audio_files[file_index].info
        found == CheckExistingTranscription(output_dir, info)
    IN  /\ found /= <<>>
        /\ ResumeDecision(ContentOf(output_dir, found[1]), info.duration)

\* the adapter results of a run: a span with both times, a text without spans
RunResults ==
    { [text |-> KeptText,
       chunks |-> << [text |-> KeptText, timestamp |-> << <<2>>, <<9>> >>] >>],
      [text |-> KeptText, chunks |-> <<>>] }

\* the segment size of a run: 60 s
RunSegmentDurations == {240}

\* 4.0 MB and 90.25 s (two segments); 4.25 MB and 50 s (one segment)
LongAudio == [path |-> "source.aac", info |-> [size_mb |-> 16, duration |-> 361]]
ShortAudio == [path |-> "source.mp3", info |-> [size_mb |-> 17, duration |-> 200]]

DiscoveredFiles ==
    { <<>>, <<LongAudio>>, <<ShortAudio>>, <<LongAudio, ShortAudio>>,
      <<ShortAudio, LongAudio>> }

\* the body of a checkpoint left by an earlier run: nothing, a line ending at
\* 60.0 s, a line ending at 99.9 s
EarlierBodies ==
    { <<>>, <<Line("stamp", 0, 600, KeptText)>>, <<Line("stamp", 0, 999, KeptText)>> }

\* the output directory before the run: empty, or one checkpoint of an
\* earlier second
EarlierDirs ==
    { <<>> }
    \cup { << [name |-> CheckpointName(1), readable |-> TRUE,
               content |-> NewCheckpoint(a.info) \o b] >> :
             a \in {LongAudio, ShortAudio}, b \in EarlierBodies }

InitRun ==
    /\ pc = "run_entry"
    /\ audio_files \in DiscoveredFiles
    /\ file_index = 1
    /\ output_dir \in EarlierDirs
    /\ output_file = <<>>
    /\ existing_result = <<>>
    /\ now = 2
    /\ processed = <<>>
    /\ segment_duration \in RunSegmentDurations
    /\ total_duration = 0 /\ num_segments = 0 /\ i = 0
    /\ total_segments = 0 /\ current_segment = 0
    /\ attempts = <<>> /\ checkpoint = <<>> /\ header_len = 0
    /\ all_results = <<>> /\ combined_result = NoResult
    /\ last = [outcome |-> "none", index |-> 0, returned |-> NoResult, before |-> 0]
    /\ model_name = "" /\ model_type = ""
    /\ faster_whisper_available \in BOOLEAN
    /\ tf_primary = <<>> /\ tf_large_v2 = <<>> /\ tf_whisper_base = <<>>
    /\ tf_calls = <<>> /\ tf_out = <<>>
    /\ IdleFilter /\ IdleCombine /\ IdleResume /\ IdleExisting /\ IdlePrep
    /\ IdleMon

\* self.load_model() and find_audio_files(): an exception of load_model leaves
\* run(); with no audio file run() returns
RunLoadModel ==
    /\ pc = "run_entry"
    /\ \E breeze, fw, base \in BOOLEAN :
        LET loaded == LoadModel(faster_whisper_available, breeze, fw, base)
        IN  IF loaded.raised
            THEN /\ pc' = "run_raised"
                 /\ UNCHANGED <<model_name, model_type>>
            ELSE /\ model_name' = loaded.name
                 /\ model_type' = loaded.type
                 /\ pc' = IF audio_files = <<>> THEN "run_done" ELSE "run_files"
    /\ UNCHANGED <<segment_duration, total_duration, num_segments, i,
                   total_segments, current_segment, attempts, checkpoint,
                   header_len, all_results, combined_result, last>>
    /\ UNCHANGED <<faster_whisper_available, tf_primary, tf_large_v2,
                   tf_whisper_base, tf_calls, tf_out>>
    /\ UNCHANGED <<prepVars, monVars, filterVars, combineVars, resumeVars, existingVars, runVars>>

\* a second passes between two files
Tick ==
    /\ pc = "run_files"
    /\ now < 2 + MaxTicks
    /\ now' = now + 1
    /\ UNCHANGED <<audio_files, file_index, output_dir, output_file,
                   existing_result, processed>>
    /\ UNCHANGED <<prepVars, monVars, loopVars, filterVars, combineVars, resumeVars, existingVars,
                   fallbackVars>>

\* an exception before the file's checkpoint is opened (os.path.getsize,
\* preprocess_audio, open): the except block of the loop, "continue"
FileRaises ==
    /\ pc = "run_files"
    /\ file_index <= Len(audio_files)
    /\ processed' = Append(processed, "raised")
    /\ file_index' = file_index + 1
    /\ UNCHANGED <<audio_files, output_dir, output_file, existing_result, now>>
    /\ UNCHANGED <<prepVars, monVars, loopVars, filterVars, combineVars, resumeVars, existingVars,
                   fallbackVars>>

\* a matching checkpoint that resume_transcription finds complete: "continue"
FileComplete ==
    /\ pc = "run_files"
    /\ file_index <= Len(audio_files)
    /\ CurrentIsComplete
    /\ existing_result' =
          CheckExistingTranscription(output_dir, audio_files[file_index].info)
    /\ processed' = Append(processed, "complete")
    /\ file_index' = file_index + 1
    /\ UNCHANGED <<audio_files, output_dir, output_file, now>>
    /\ UNCHANGED <<prepVars, monVars, loopVars, filterVars, combineVars, resumeVars, existingVars,
                   fallbackVars>>

\* transcribe_audio up to the call of transcribe_audio_segments_realtime:
\* transcribe_audio_segments looks for the checkpoint again and
\* create_segmented_transcription returns it, or opens a new one
BeginTranscribeAudio ==
    LET info == audio_files[file_index].info
        found == CheckExistingTranscription(output_dir, info)
    IN  /\ existing_result' = found
        /\ IF found /= <<>> /\ HasFile(output_dir, found[1])
           THEN /\ output_file' = found
                /\ output_dir' = output_dir
                /\ checkpoint' = ContentOf(output_dir, found[1])
           ELSE /\ output_file' = <<CheckpointName(now)>>
                /\ output_dir' = OpenForWriting(output_dir, CheckpointName(now),
                                                NewCheckpoint(info))
                /\ checkpoint' = NewCheckpoint(info)
        /\ header_len' = Len(checkpoint')
        /\ total_duration' = info.duration
        /\ num_segments' = 0 /\ i' = 0
        /\ attempts' = <<>>
        /\ all_results' = <<>>
        /\ combined_result' = NoResult
        /\ last' = [outcome |-> "none", index |-> 0, returned |-> NoResult,
                    before |-> 0]
        /\ pc' = "entry"
        /\ UNCHANGED <<segment_duration, total_segments, current_segment>>
        /\ UNCHANGED <<audio_files, file_index, now, processed>>
        /\ UNCHANGED <<prepVars, monVars, filterVars, combineVars, resumeVars, existingVars,
                       fallbackVars>>

\* a variant that transcribes whatever resume_transcription decided
FileBegin_IgnoresDecision ==
    /\ pc = "run_files"
    /\ file_index <= Len(audio_files)
    /\ BeginTranscribeAudio

\* no matching checkpoint, or one that is not complete
FileBegin ==
    /\ pc = "run_files"
    /\ file_index <= Len(audio_files)
    /\ ~CurrentIsComplete
    /\ BeginTranscribeAudio

\* the segment loop has returned: the rest of transcribe_audio and of the
\* loop body; the locals of the calls are gone
FileDone ==
    /\ pc = "done"
    /\ output_dir' = WithContent(output_dir, output_file[1], checkpoint)
    /\ processed' = Append(processed, "transcribed")
    /\ file_index' = file_index + 1
    /\ output_file' = <<>>
    /\ total_duration' = 0 /\ num_segments' = 0 /\ i' = 0
    /\ attempts' = <<>> /\ checkpoint' = <<>> /\ header_len' = 0
    /\ all_results' = <<>> /\ combined_result' = NoResult
    /\ last' = [outcome |-> "none", index |-> 0, returned |-> NoResult, before |-> 0]
    /\ pc' = "run_files"
    /\ UNCHANGED <<segment_duration, total_segments, current_segment>>
    /\ UNCHANGED <<audio_files, existing_result, now>>
    /\ UNCHANGED <<prepVars, monVars, filterVars, combineVars, resumeVars, existingVars, fallbackVars>>

\* the for loop is exhausted
RunReturn ==
    /\ pc = "run_files"
    /\ file_index > Len(audio_files)
    /\ pc' = "run_done"
    /\ UNCHANGED <<segment_duration, total_duration, num_segments, i,
                   total_segments, current_segment, attempts, checkpoint,
                   header_len, all_results, combined_result, last>>
    /\ UNCHANGED <<prepVars, monVars, filterVars, combineVars, resumeVars, existingVars, fallbackVars,
                   runVars>>

NextRun ==
    \/ RunLoadModel
    \/ Tick
    \/ FileRaises
    \/ FileComplete
    \/ FileBegin
    \/ BeginLoop
    \/ SegmentExtractFails
    \/ SegmentTranscribeRaises
    \/ SegmentSavedFrom(RunResults)
    \/ SegmentSaveRaisesFrom(RunResults)
    \/ LoopReturn
    \/ FileDone
    \/ RunReturn

SpecRun == InitRun /\ [][NextRun]_vars

\* the files of the output directory with what each holds: the file the
\* segment loop appends to holds `checkpoint`
Disk ==
    IF pc \in {"entry", "loop", "done"}
    THEN WithContent(output_dir, output_file[1], checkpoint)
    ELSE output_dir

IsPrefix(a, b) == Len(a) <= Len(b) /\ SubSeq(b, 1, Len(a)) = a

\* the checkpoint check_existing_transcription finds for the file the loop is at
Found == CheckExistingTranscription(output_dir, audio_files[file_index].info)

\* C16: from a file whose matching checkpoint is decided complete, run() only
\* moves on to the next file: the segment loop is not entered, no segment is
\* attempted and no file of the output directory changes
C16_CompleteSkipsFile ==
    [][(/\ pc = "run_files"
        /\ file_index <= Len(audio_files)
        /\ CurrentIsComplete)
          => /\ pc' = "run_files"
             /\ output_dir' = output_dir
             /\ attempts' = attempts
             /\ current_segment' = current_segment
             /\ checkpoint' = checkpoint]_vars

\* a file has been skipped for its complete checkpoint, which is still there
C16_Witness ==
    /\ pc = "run_files"
    /\ processed /= <<>>
    /\ processed[Len(processed)] = "complete"
    /\ existing_result /= <<>>
    /\ HasFile(output_dir, existing_result[1])
    /\ ContentOf(output_dir, existing_result[1])
          = NewCheckpoint(LongAudio.info) \o <<Line("stamp", 0, 999, KeptText)>>

\* C17: for a file with a matching checkpoint that is not complete, no file is
\* created and the loop appends to the matching one; the loop starts at index
\* 0 and, when it returns, has attempted every index, wherever the last time
\* written to the checkpoint lies
C17_ResumeRestartsFromZero ==
    [][/\ (pc = "run_files" /\ pc' = "entry" /\ Found /= <<>>)
            => /\ output_dir' = output_dir
               /\ output_file' = Found
               /\ checkpoint' = ContentOf(output_dir, Found[1])
       /\ (pc = "entry" /\ pc' = "loop" /\ existing_result /= <<>>)
            => i' = 0
       /\ (pc = "loop" /\ pc' = "done" /\ existing_result /= <<>>)
            => /\ output_file = existing_result
               /\ IsPrefix(ContentOf(output_dir, output_file[1]), checkpoint)
               /\ Len(attempts) = NumSegments(total_duration, segment_duration)
               /\ \A k \in 1..Len(attempts) :
                     attempts[k][1] = StartTime(k - 1, segment_duration)]_vars

\* a checkpoint whose last line ends at 60.0 s, inside segment 1, was resumed:
\* both segments were attempted and a line was appended to that file, the
\* only one of the directory
C17_Witness ==
    /\ pc = "done"
    /\ existing_result /= <<>>
    /\ output_file = existing_result
    /\ Len(output_dir) = 1
    /\ ContentOf(output_dir, output_file[1])
          = NewCheckpoint(LongAudio.info) \o <<Line("stamp", 0, 600, KeptText)>>
    /\ Len(attempts) = 2
    /\ Len(checkpoint) > header_len

\* the header block occurs once in a checkpoint
HeaderOnce(content) ==
    Cardinality({ k \in 1..Len(content) : content[k].kind = "title" }) = 1

\* C19: every step of a run leaves every checkpoint file in place with the
\* lines it held as the first lines it holds, and every checkpoint holds one
\* header block
C19_AppendOnly ==
    [][/\ \A k \in 1..Len(Disk) :
             \E j \in 1..Len(Disk') :
                 /\ Disk'[j].name = Disk[k].name
                 /\ IsPrefix(Disk[k].content, Disk'[j].content)
       /\ \A j \in 1..Len(Disk') : HeaderOnce(Disk'[j].content)]_vars

\* what the code does: the same for every step but the creation of a
\* checkpoint under a name the directory already holds
C19_AppendOnlyUnlessSameName ==
    [][~(/\ pc = "run_files" /\ pc' = "entry"
         /\ Found = <<>>
         /\ HasFile(output_dir, CheckpointName(now)))
       => /\ \A k \in 1..Len(Disk) :
                \E j \in 1..Len(Disk') :
                    /\ Disk'[j].name = Disk[k].name
                    /\ IsPrefix(Disk[k].content, Disk'[j].content)
          /\ \A j \in 1..Len(Disk') : HeaderOnce(Disk'[j].content)]_vars

\* C20: whenever run() is over, returned or left by an exception of
\* load_model, the per-file loop has been through every discovered file
C20_EveryFileProcessed ==
    pc \in {"run_done", "run_raised"} => Len(processed) = Len(audio_files)

\* what the code does: once the model is loaded, an exception in one file's
\* processing leaves the loop going, and run() returns after the last file
C20_LoopSurvivesFileExceptions ==
    /\ pc = "run_done" => Len(processed) = Len(audio_files)
    /\ pc = "run_raised" => processed = <<>> /\ model_name = ""

-----------------------------------------------------------------------------
(* transcribe_audio and the files it works with: preprocess_audio,        *)
(* get_file_info, transcribe_audio_segments, the segment files of the     *)
(* loop, and the clean-up of both exits.  A path is [dir, name, ext]:     *)
(* name is the base name split at "_".  A call of the external tool that  *)
(* writes a file ends "ok" (exit code 0, the file written), "failed"      *)
(* (another exit code, the file not written), "failed_partial" (another   *)
(* exit code, the file written) or "raised" (subprocess.run raised).      *)
(* The files, the paths removed or written, and the failures caught and   *)
(* printed are carried through a call as st = [files, touched, caught,    *)
(* logged].                                                               *)

\* the loop extracts at most this many segment files
MaxSegmentFiles == 2

\* self.optimized_params['volume_boost'] of a machine with 4 GB
DefaultVolumeBoost == 5

\* os.path.join(self.temp_dir, f"{filename}_{suffix}.wav"), filename the base
\* name of `path` without its extension
TempFile(path, suffix) ==
    [dir |-> "temp", name |-> Append(path.name, suffix), ext |-> ".wav"]

\* subprocess.run(['ffmpeg', ..., '-y', out]) ending with `outcome`
Ffmpeg(st, out, outcome) ==
    IF outcome \in {"ok", "failed_partial"}
    THEN [st EXCEPT !.files = @ \cup {out}, !.touched = @ \cup {out}]
    ELSE st

\* an except block or a failure test at `site`, with or without a print
Catch(st, site, printed) ==
    [st EXCEPT !.caught = @ \cup {site},
               !.logged = IF printed THEN @ \cup {site} ELSE @]

\* _remove_silence_segments(path, silence_segments) for a non-empty list
RemoveSilenceSegments(path, st, outcome) ==
    LET output_path == TempFile(path, "no_silence")
        after == Ffmpeg(st, output_path, outcome)
    IN  IF outcome = "ok"
        THEN [path |-> output_path, st |-> after]
        ELSE [path |-> path, st |-> Catch(after, "remove_silence", TRUE)]

\* the volume_boost of preprocess_audio: analysis is <<the mean volume>> that
\* _analyze_audio_quality measured, or <<>> when it returned None
VolumeBoost(analysis) ==
    IF analysis = <<>> THEN DefaultVolumeBoost
    ELSE LET target_volume == 0 - 12
             wanted == IF target_volume - analysis[1] > 0
                       THEN target_volume - analysis[1] ELSE 0
         IN  Min(wanted, DefaultVolumeBoost)

\* a variant whose failed filter stage returns the file of the stage before
PreprocessAudio_ReturnsPreviousStage(path, st0, o) ==
    LET st1 == IF o.analysis = <<>> THEN Catch(st0, "analysis", TRUE) ELSE st0
        temp_wav == TempFile(path, "temp")
        converted_path == TempFile(path, "optimized")
        st2 == Ffmpeg(st1, temp_wav, o.convert)
        st3 == CASE o.detect = "raised" -> Catch(st2, "detect", TRUE)
                 [] o.detect = "unparsed" -> Catch(st2, "detect_parse", FALSE)
                 [] OTHER -> st2
        silenced == IF o.detect = "some"
                    THEN RemoveSilenceSegments(temp_wav, st3, o.remove)
                    ELSE [path |-> temp_wav, st |-> st3]
        st4 == Ffmpeg(silenced.st, converted_path, o.filter)
        returned(p, st) == [path |-> p, st |-> st, temp_wav |-> silenced.path,
                            volume_boost |-> VolumeBoost(o.analysis)]
    IN  IF o.convert = "raised" THEN returned(path, Catch(st2, "preprocess", TRUE))
        ELSE IF o.convert /= "ok" THEN returned(path, Catch(st2, "convert", TRUE))
        ELSE IF o.filter = "raised" THEN returned(path, Catch(st4, "preprocess", TRUE))
        ELSE IF o.filter = "ok" THEN returned(converted_path, st4)
        ELSE returned(silenced.path, Catch(st4, "filter", TRUE))

\* preprocess_audio(path); o tells how the analysis, the conversion, the
\* silence detection ("none", "some", "unparsed": its one line did not parse,
\* "raised"), the silence removal and the filter stage end
PreprocessAudio(path, st0, o) ==
    LET st1 == IF o.analysis = <<>> THEN Catch(st0, "analysis", TRUE) ELSE st0
        temp_wav == TempFile(path, "temp")
        converted_path == TempFile(path, "optimized")
        st2 == Ffmpeg(st1, temp_wav, o.convert)
        st3 == CASE o.detect = "raised" -> Catch(st2, "detect", TRUE)
                 [] o.detect = "unparsed" -> Catch(st2, "detect_parse", FALSE)
                 [] OTHER -> st2
        silenced == IF o.detect = "some"
                    THEN RemoveSilenceSegments(temp_wav, st3, o.remove)
                    ELSE [path |-> temp_wav, st |-> st3]
        st4 == Ffmpeg(silenced.st, converted_path, o.filter)
        st5 == IF silenced.path \in st4.files
               THEN [st4 EXCEPT !.files = @ \ {silenced.path},
                                !.touched = @ \cup {silenced.path}]
               ELSE st4
        returned(p, st) == [path |-> p, st |-> st, temp_wav |-> silenced.path,
                            volume_boost |-> VolumeBoost(o.analysis)]
    IN  IF o.convert = "raised" THEN returned(path, Catch(st2, "preprocess", TRUE))
        ELSE IF o.convert /= "ok" THEN returned(path, Catch(st2, "convert", TRUE))
        ELSE IF o.filter = "raised" THEN returned(path, Catch(st4, "preprocess", TRUE))
        ELSE IF o.filter = "ok" THEN returned(converted_path, st5)
        ELSE returned(path, Catch(st5, "filter", TRUE))

\* how the stages of one call can end; a stage that is not reached is "-"
PreprocessOutcomes ==
    LET ToolOutcomes == {"ok", "failed", "failed_partial", "raised"}
        reached ==
            [analysis : {<<>>, <<0 - 20>>},
             convert : ToolOutcomes,
             detect : {"none", "some", "unparsed", "raised", "-"},
             remove : ToolOutcomes \cup {"-"},
             filter : ToolOutcomes \cup {"-"}]
    IN  { o \in reached :
            /\ (o.convert = "ok") = (o.detect /= "-")
            /\ (o.convert = "ok") = (o.filter /= "-")
            /\ (o.detect = "some") = (o.remove /= "-") }

\* os.path.join(self.temp_dir, f"segment_{i}.wav")
SegmentFiles ==
    { [dir |-> "temp", name |-> <<"segment", ToString(k)>>, ext |-> ".wav"] :
        k \in 0..(MaxSegmentFiles - 1) }

\* transcribe_audio is called with a file find_audio_files found
InitPreprocess ==
    /\ pc = "transcribe_audio"
    /\ pp_pc = "start"
    /\ audio_path \in { [dir |-> "", name |-> <<"source">>, ext |-> e] :
                           e \in {".mp3", ".wav"} }
    /\ on_disk = {audio_path}
    /\ processed_audio = <<>>
    /\ touched = {} /\ caught = {} /\ logged = {}
    /\ pp_last = <<>>
    /\ IdleLoop /\ IdleFilter /\ IdleCombine /\ IdleResume /\ IdleExisting
    /\ IdleFallback /\ IdleRun /\ IdleMon

\* one call preprocess_audio(audio_path) and what it leaves
CallPreprocessAudio(o) ==
    LET fresh == [files |-> on_disk, touched |-> {}, caught |-> {}, logged |-> {}]
        r == PreprocessAudio(audio_path, fresh, o)
    IN  /\ on_disk' = r.st.files
        /\ pp_last' = << [outcome |-> o, returned |-> r.path, temp_wav |-> r.temp_wav,
                          volume_boost |-> r.volume_boost,
                          touched |-> r.st.touched, before |-> on_disk] >>
        /\ touched' = touched \cup r.st.touched
        /\ caught' = caught \cup r.st.caught
        /\ logged' = logged \cup r.st.logged

\* processed_audio = self.preprocess_audio(audio_path)
PreprocessStep ==
    /\ pp_pc = "start"
    /\ \E o \in PreprocessOutcomes : CallPreprocessAudio(o)
    /\ processed_audio' = <<pp_last'[1].returned>>
    /\ pp_pc' = "preprocessed"
    /\ UNCHANGED audio_path
    /\ UNCHANGED <<loopVars, filterVars, combineVars, resumeVars, existingVars,
                   fallbackVars, runVars, monVars>>

\* file_info = self.get_file_info(processed_audio): a probe that fails is
\* replaced by the size of the file, without a print
GetFileInfo ==
    /\ pp_pc = "preprocessed"
    /\ \E probe \in {"ok", "failed"} :
        caught' = IF probe = "failed" THEN caught \cup {"probe"} ELSE caught
    /\ pp_pc' = "info"
    /\ UNCHANGED <<audio_path, on_disk, processed_audio, touched, logged, pp_last>>
    /\ UNCHANGED <<loopVars, filterVars, combineVars, resumeVars, existingVars,
                   fallbackVars, runVars, monVars>>

\* output_file, file_info = self.transcribe_audio_segments(audio_path): it
\* preprocesses the audio again; an exception of the calls that follow
\* (os.path.getsize, open) leaves transcribe_audio before its try block
TranscribeAudioSegments ==
    /\ pp_pc = "info"
    /\ \E o \in PreprocessOutcomes : CallPreprocessAudio(o)
    /\ \E raises \in BOOLEAN : pp_pc' = IF raises THEN "raised" ELSE "ready"
    /\ UNCHANGED <<audio_path, processed_audio>>
    /\ UNCHANGED <<loopVars, filterVars, combineVars, resumeVars, existingVars,
                   fallbackVars, runVars, monVars>>

\* the try block up to the clean-up: the loop writes segment files and
\* removes each one whose segment was saved or raised; a segment whose
\* extraction failed is reported and its file is left
SegmentLoop ==
    /\ pp_pc = "ready"
    /\ \E left \in SUBSET SegmentFiles :
        /\ on_disk' = on_disk \cup left
        /\ touched' = touched \cup SegmentFiles
        /\ caught' = IF left /= {} THEN caught \cup {"segment"} ELSE caught
        /\ logged' = IF left /= {} THEN logged \cup {"segment"} ELSE logged
    /\ \E raises \in BOOLEAN : pp_pc' = IF raises THEN "loop_raised" ELSE "loop_ok"
    /\ UNCHANGED <<audio_path, processed_audio, pp_last>>
    /\ UNCHANGED <<loopVars, filterVars, combineVars, resumeVars, existingVars,
                   fallbackVars, runVars, monVars>>

\* cleanup_temp_files(): every file of the temp directory is removed, or an
\* exception, which is printed, leaves `kept`
CleanupTempFiles(st, kept) ==
    LET removed == { p \in st.files : p.dir = "temp" } \ kept
        after == [st EXCEPT !.files = @ \ removed, !.touched = @ \cup removed]
    IN  IF kept = {} THEN after ELSE Catch(after, "cleanup", TRUE)

\* the clean-up of transcribe_audio, in the try block or in the except
\* block, with `guard` for the test processed_audio != audio_path
TranscribeAudioExitWith(guard) ==
    /\ pp_pc \in {"loop_ok", "loop_raised"}
    /\ \E kept \in SUBSET { p \in on_disk : p.dir = "temp" } :
        LET st == [files |-> on_disk, touched |-> touched, caught |-> caught,
                   logged |-> logged]
            cleaned == IF guard /\ processed_audio[1] \in on_disk
                       THEN [st EXCEPT !.files = @ \ {processed_audio[1]},
                                       !.touched = @ \cup {processed_audio[1]}]
                       ELSE st
            after == CleanupTempFiles(cleaned, kept \cap cleaned.files)
        IN  /\ on_disk' = after.files
            /\ touched' = after.touched
            /\ caught' = after.caught
            /\ logged' = after.logged
    /\ pp_pc' = IF pp_pc = "loop_ok" THEN "returned" ELSE "raised"
    /\ UNCHANGED <<audio_path, processed_audio, pp_last>>
    /\ UNCHANGED <<loopVars, filterVars, combineVars, resumeVars, existingVars,
                   fallbackVars, runVars, monVars>>

\* a variant that removes the processed file whatever its path
TranscribeAudioExit_Unguarded == TranscribeAudioExitWith(TRUE)

TranscribeAudioExit == TranscribeAudioExitWith(processed_audio[1] /= audio_path)

NextPreprocess ==
    \/ PreprocessStep
    \/ GetFileInfo
    \/ TranscribeAudioSegments
    \/ SegmentLoop
    \/ TranscribeAudioExit

SpecPreprocess == InitPreprocess /\ [][NextPreprocess]_vars

\* preprocess_audio has just returned to transcribe_audio or to
\* transcribe_audio_segments
JustPreprocessed == pp_pc \in {"preprocessed", "ready"}

\* C21: every failure the program caught and recovered from was reported by
\* a print before the recovery
C21_EveryCaughtFailureLogged == caught \subseteq logged

\* the call of pp_last made again with a measured volume
WithMeasuredVolume ==
    PreprocessAudio(audio_path,
                    [files |-> pp_last[1].before, touched |-> {}, caught |-> {},
                     logged |-> {}],
                    [pp_last[1].outcome EXCEPT !.analysis = <<0 - 20>>])

\* what every call of preprocess_audio does: the returned path exists, a
\* failed silence removal hands the converted file to the filter stage, and
\* a failed analysis changes the volume boost only
PreprocessDegradesGracefully ==
    LET c == pp_last[1]
        o == c.outcome
    IN  /\ c.returned \in on_disk
        /\ audio_path \notin c.touched
        /\ (o.detect = "some" /\ o.remove /= "ok")
              => c.temp_wav = TempFile(audio_path, "temp")
        /\ o.analysis = <<>>
              => /\ c.volume_boost = DefaultVolumeBoost
                 /\ WithMeasuredVolume.path = c.returned
                 /\ WithMeasuredVolume.st.files = on_disk

\* C22: preprocess_audio returns a path that exists; a failed conversion
\* returns the audio it was given, a failed silence removal leaves the
\* converted file to the next stage, a failed filter stage returns the file
\* of the stage before it, and a failed analysis only selects the default
\* volume boost
C22_StageFailureReturnsPreviousStage ==
    JustPreprocessed =>
        LET c == pp_last[1]
            o == c.outcome
        IN  /\ PreprocessDegradesGracefully
            /\ o.convert /= "ok" => c.returned = audio_path
            /\ (o.convert = "ok" /\ o.filter /= "ok") => c.returned = c.temp_wav

\* C22, as the code has it: a failed filter stage, as a failed conversion,
\* returns the audio preprocess_audio was given
C22_StageFailureReturnsSource ==
    JustPreprocessed =>
        LET c == pp_last[1]
            o == c.outcome
        IN  /\ PreprocessDegradesGracefully
            /\ o.convert /= "ok" => c.returned = audio_path
            /\ (o.convert = "ok" /\ o.filter /= "ok") => c.returned = audio_path
            /\ (o.convert = "ok" /\ o.filter = "ok")
                  => c.returned = TempFile(audio_path, "optimized")

\* silence was removed, the filter stage failed: the audio given is
\* returned and the file without silence is gone
C22_Witness ==
    /\ pp_pc = "preprocessed"
    /\ pp_last[1].outcome.detect = "some"
    /\ pp_last[1].outcome.remove = "ok"
    /\ pp_last[1].outcome.filter = "failed"
    /\ pp_last[1].temp_wav = TempFile(TempFile(audio_path, "temp"), "no_silence")
    /\ pp_last[1].temp_wav \notin on_disk
    /\ processed_audio = <<audio_path>>

\* C23: when preprocess_audio returns, every file it wrote other than the
\* one it returns has been removed
C23_IntermediatesDeleted ==
    JustPreprocessed =>
        (pp_last[1].touched \cap on_disk) \ {pp_last[1].returned} = {}

\* C28: the audio file transcribe_audio was given is on the disk and has
\* been neither removed nor written over
C28_SourceNeverTouched ==
    pp_pc /= "" => audio_path \in on_disk /\ audio_path \notin touched

\* preprocessing failed and returned the audio it was given; transcribe_audio
\* has returned and the temp directory is empty
C28_Witness ==
    /\ pp_pc = "returned"
    /\ processed_audio = <<audio_path>>
    /\ touched /= {}
    /\ on_disk = {audio_path}

-----------------------------------------------------------------------------
(* The progress reporter.  The main thread goes through the files of      *)
(* run(): transcribe_audio starts the reporter, runs the segment loop,    *)
(* which sets the progress counters, and stops the reporter in its try    *)
(* block or in its except block.  Every progress_monitor thread started   *)
(* so far is [pc, stopped]: at the test of its while loop ("while"),      *)
(* inside an iteration ("iteration") or returned ("exited"); stopped      *)
(* tells that stop_progress_monitor ran since the thread was started.     *)
(* join(timeout=1) returns when the thread has exited or when the second  *)
(* is over, whichever comes first: the main thread goes on either way.    *)

\* what the main thread and the reporters leave alone
monitorFrame ==
    <<segment_duration, attempts, checkpoint, header_len, all_results,
      combined_result, last, audio_files, output_dir, output_file,
      existing_result, now, filterVars, combineVars, resumeVars, existingVars,
      fallbackVars, prepVars>>

InitMonitor ==
    /\ pc = "run_files"
    /\ audio_files \in DiscoveredFiles \ {<<>>}
    /\ file_index = 1
    /\ segment_duration \in RunSegmentDurations
    /\ total_duration = 0 /\ num_segments = 0 /\ i = 0
    /\ total_segments = 0 /\ current_segment = 0
    /\ attempts = <<>> /\ checkpoint = <<>> /\ header_len = 0
    /\ all_results = <<>> /\ combined_result = NoResult
    /\ last = [outcome |-> "none", index |-> 0, returned |-> NoResult, before |-> 0]
    /\ output_dir = <<>> /\ output_file = <<>> /\ existing_result = <<>>
    /\ now = 0 /\ processed = <<>>
    /\ IdleFilter /\ IdleCombine /\ IdleResume /\ IdleExisting /\ IdleFallback
    /\ IdlePrep /\ IdleMon

\* transcribe_audio before its try block; an exception there goes to the
\* except block of run(), which takes the next file
TranscribeAudioBegins ==
    /\ pc = "run_files"
    /\ file_index <= Len(audio_files)
    /\ \E raises \in BOOLEAN :
        IF raises
        THEN /\ processed' = Append(processed, "raised")
             /\ file_index' = file_index + 1
             /\ UNCHANGED <<pc, total_duration>>
        ELSE /\ pc' = "try"
             /\ total_duration' = audio_files[file_index].info.duration
             /\ UNCHANGED <<processed, file_index>>
    /\ UNCHANGED <<num_segments, i, total_segments, current_segment>>
    /\ UNCHANGED <<monVars, monitorFrame>>

\* start_progress_monitor()
StartProgressMonitor ==
    /\ pc = "try"
    /\ is_processing' = TRUE
    /\ reporters' = Append(reporters, [pc |-> "while", stopped |-> FALSE])
    /\ progress_thread' = <<Len(reporters) + 1>>
    /\ pc' = "segments_entry"
    /\ UNCHANGED <<total_duration, num_segments, i, total_segments, current_segment,
                   file_index, processed, attrs>>
    /\ UNCHANGED monitorFrame

\* num_segments = ...; self.total_segments = num_segments
SetTotalSegments ==
    /\ pc = "segments_entry"
    /\ num_segments' = NumSegments(total_duration, segment_duration)
    /\ total_segments' = NumSegments(total_duration, segment_duration)
    /\ attrs' = attrs \cup {"total_segments"}
    /\ pc' = "total_set"
    /\ UNCHANGED <<total_duration, i, current_segment, file_index, processed,
                   is_processing, progress_thread, reporters>>
    /\ UNCHANGED monitorFrame

\* self.current_segment = 0, then the for loop begins
ResetCurrentSegment ==
    /\ pc = "total_set"
    /\ current_segment' = 0
    /\ attrs' = attrs \cup {"current_segment"}
    /\ i' = 0
    /\ pc' = "for"
    /\ UNCHANGED <<total_duration, num_segments, total_segments, file_index,
                   processed, is_processing, progress_thread, reporters>>
    /\ UNCHANGED monitorFrame

\* one iteration: self.current_segment = i + 1, then the segment's work
SegmentIteration ==
    /\ pc = "for"
    /\ i < num_segments
    /\ current_segment' = i + 1
    /\ i' = i + 1
    /\ UNCHANGED <<pc, total_duration, num_segments, total_segments, file_index,
                   processed, attrs>>
    /\ UNCHANGED <<monVars, monitorFrame>>

\* stop_progress_monitor(): the flag, then the bounded join; every thread
\* started so far has seen a stop
StopProgressMonitor ==
    /\ is_processing' = FALSE
    /\ reporters' = [t \in DOMAIN reporters |-> [reporters[t] EXCEPT !.stopped = TRUE]]
    /\ UNCHANGED <<progress_thread, attrs>>

\* the loop is exhausted and returns; the try block stops the reporter
TryBlockStops ==
    /\ pc = "for"
    /\ i >= num_segments
    /\ StopProgressMonitor
    /\ pc' = "stopped"
    /\ UNCHANGED <<total_duration, num_segments, i, total_segments, current_segment,
                   file_index, processed>>
    /\ UNCHANGED monitorFrame

\* a variant of the except block that leaves the reporter running
ExceptBlock_NoStop ==
    /\ pc \in {"segments_entry", "for", "stopped"}
    /\ pc' = "excepted"
    /\ UNCHANGED <<total_duration, num_segments, i, total_segments, current_segment,
                   file_index, processed>>
    /\ UNCHANGED <<monVars, monitorFrame>>

\* an exception in the try block: the except block stops the reporter
ExceptBlock ==
    /\ pc \in {"segments_entry", "for", "stopped"}
    /\ StopProgressMonitor
    /\ pc' = "excepted"
    /\ UNCHANGED <<total_duration, num_segments, i, total_segments, current_segment,
                   file_index, processed>>
    /\ UNCHANGED monitorFrame

\* the clean-up, then transcribe_audio returns or raises again and run()
\* takes the next file
TranscribeAudioLeaves ==
    /\ pc \in {"stopped", "excepted"}
    /\ processed' = Append(processed, IF pc = "stopped" THEN "transcribed" ELSE "raised")
    /\ file_index' = file_index + 1
    /\ pc' = "run_files"
    /\ UNCHANGED <<total_duration, num_segments, i, total_segments, current_segment>>
    /\ UNCHANGED <<monVars, monitorFrame>>

\* progress_monitor: "while self.is_processing"
ReporterCheck(t) ==
    /\ reporters[t].pc = "while"
    /\ reporters' = [reporters EXCEPT ![t].pc =
                        IF is_processing THEN "iteration" ELSE "exited"]
    /\ UNCHANGED <<is_processing, progress_thread, attrs>>
    /\ UNCHANGED <<pc, total_duration, num_segments, i, total_segments,
                   current_segment, file_index, processed>>
    /\ UNCHANGED monitorFrame

\* progress_monitor: the body of the while loop, which reads start_time and
\* the counters, prints, and sleeps a second
ReporterIteration(t) ==
    /\ reporters[t].pc = "iteration"
    /\ reporters' = [reporters EXCEPT ![t].pc = "while"]
    /\ UNCHANGED <<is_processing, progress_thread, attrs>>
    /\ UNCHANGED <<pc, total_duration, num_segments, i, total_segments,
                   current_segment, file_index, processed>>
    /\ UNCHANGED monitorFrame

NextMonitor ==
    \/ TranscribeAudioBegins
    \/ StartProgressMonitor
    \/ SetTotalSegments
    \/ ResetCurrentSegment
    \/ SegmentIteration
    \/ TryBlockStops
    \/ ExceptBlock
    \/ TranscribeAudioLeaves
    \/ \E t \in DOMAIN reporters : ReporterCheck(t)
    \/ \E t \in DOMAIN reporters : ReporterIteration(t)

SpecMonitor == InitMonitor /\ [][NextMonitor]_vars

\* the reporter threads that have not returned
LiveReporters == { t \in DOMAIN reporters : reporters[t].pc /= "exited" }

\* the main thread is between start_progress_monitor and the stop that
\* matches it
Monitored == pc \in {"segments_entry", "total_set", "for"}

\* C24: a step of a reporter thread changes nothing but the position of that
\* thread, and a reporter that has seen stop_progress_monitor clear the flag
\* does not begin another polling iteration
C24_ReporterReadsAndStops ==
    [][\A t \in DOMAIN reporters :
          /\ reporters'[t] /= reporters[t] /\ reporters'[t].stopped = reporters[t].stopped
                => UNCHANGED <<loopVars, filterVars, combineVars, resumeVars,
                               existingVars, fallbackVars, runVars, prepVars,
                               is_processing, progress_thread, attrs>>
          /\ (reporters[t].stopped /\ reporters[t].pc = "while")
                => reporters'[t].pc /= "iteration"]_vars

\* C27: at most one reporter thread is live
C27_AtMostOneReporter == Cardinality(LiveReporters) <= 1

\* C29: whenever transcribe_audio is not running, returned or raised,
\* is_processing is false, and it is true only between
\* start_progress_monitor and the matching stop
C29_StoppedOnEveryExit ==
    /\ pc = "run_files" => ~is_processing
    /\ is_processing => Monitored

\* the second file has left transcribe_audio through its except block, the
\* first through its try block
C29_Witness ==
    /\ pc = "run_files"
    /\ processed = <<"transcribed", "raised">>
    /\ Len(reporters) = 2
    /\ ~is_processing

\* the counters as any observer finds them
CountersConsistent ==
    {"total_segments", "current_segment"} \subseteq attrs
        => /\ total_segments >= 1
           /\ 0 <= current_segment
           /\ current_segment <= total_segments

\* C30: in every state where both counters are set, total_segments >= 1 and
\* 0 <= current_segment <= total_segments, and current_segment never
\* decreases while one file's loop runs
C30_CountersConsistent ==
    [][/\ CountersConsistent'
       /\ (pc = "for" /\ pc' = "for") => current_segment' >= current_segment]_vars

-----------------------------------------------------------------------------
(* check_existing_transcription: the first sentence it returns with the   *)
(* matching checkpoint, and what a restart decides about the checkpoint   *)
(* a run has left.                                                        *)

\* len(line) > 20
MinContentLength == 20

\* the tests of the scan on one stripped line: not empty, none of the listed
\* prefixes, longer than 20 characters, and not "[" with a "]".  The title
\* "U+667A U+80FD U+8A9E U+97F3 U+8F49 U+9304 U+7D50 U+679C (Breeze-ASR-25)"
\* has 24 characters and begins with none of the prefixes; a rule line begins
\* with "="; the file, model, method, size, duration and time lines begin
\* with a listed prefix; the label has 9 characters; on a machine without
\* GPU the hardware, acceleration, memory, segment size, batch size and
\* dtype lines have 16, 9, 11, 12, 7 and 17 characters
ScanAccepts(line) ==
    CASE line.kind = "title" -> 24 > MinContentLength
      [] line.kind = "text" -> Len(Strip(line.text)) > MinContentLength
      [] line.kind = "label" -> 9 > MinContentLength
      [] line.kind = "hardware" -> 16 > MinContentLength
      [] line.kind = "dtype" -> 17 > MinContentLength
      [] OTHER -> FALSE

\* the for loop over the lines from line k: <<the first accepted line>>, or
\* <<>> when has_content stays False
RECURSIVE FirstSentence(_, _)
FirstSentence(content, k) ==
    IF k > Len(content) THEN <<>>
    ELSE IF ScanAccepts(content[k]) THEN <<content[k]>>
         ELSE FirstSentence(content, k + 1)

\* C25: the first sentence check_existing_transcription returns with a
\* matching checkpoint is a line of the transcript body, or there is none
C25_FirstContentIsBodyLine ==
    existing_result /= <<>> =>
        LET first == FirstSentence(ContentOf(output_dir, existing_result[1]), 1)
        IN  first = <<>> \/ first[1].kind = "text"

\* C26: when the loop of a file has returned with every segment extracted,
\* transcribed and appended, check_existing_transcription finds the file's
\* checkpoint for the same audio and resume_transcription decides that it
\* is complete, so that a restart appends nothing
C26_RestartFindsComplete ==
    (pc = "done" /\ Len(all_results) = num_segments) =>
        LET info == audio_files[file_index].info
            found == CheckExistingTranscription(Disk, info)
        IN  /\ found = output_file
            /\ ResumeDecision(ContentOf(Disk, found[1]), info.duration)

=============================================================================
